---------------------------- MODULE Spec2Model ----------------------------
(***************************************************************************)
(* Model of the transaction analysis engine of mm-cli                      *)
(* (src/mm_cli/analysis.py).  The engine is a set of pure functions over   *)
(* account, category and transaction snapshots; every function is an       *)
(* operator below, and every call of a function is one action that stores  *)
(* the returned value in a result variable.                                *)
(*                                                                         *)
(* Representation:                                                         *)
(*   - a date is a record [year, month, day]; date arithmetic goes through *)
(*     the proleptic ordinal exactly as datetime.date does;                *)
(*   - a Decimal amount is an integer number of cents;                     *)
(*   - an optional argument is a record [some, val];                       *)
(*   - an account group label is a sequence of characters, so that         *)
(*     str.lower() is a real conversion;                                   *)
(*   - other strings (ids, IBANs) are opaque and only compared.            *)
(***************************************************************************)
EXTENDS Integers, Sequences, FiniteSets, TLC

VARIABLES
    today,                  \* date.today() of the invocation
    transactions,           \* list[Transaction] handed to the engine
    transfer_category_ids,  \* set[str] handed to filter/extract_transfers
    accounts,               \* optional list[Account]
    active_groups,          \* optional list[str]
    filtered,               \* result of filter_transfers, or Unset
    extracted,              \* result of extract_transfers, or Unset
    range,                  \* [start, end] handed to get_previous_period
    period,                 \* result of resolve_period, or Unset
    previous,               \* result of get_previous_period, or Unset
    months,                 \* months argument of the aggregators
    granularity,            \* granularity argument of compute_cashflow
    cashflow,               \* result of compute_cashflow, or Unset
    history,                \* result of compute_balance_history, or Unset
    categories,             \* list[Category] handed to compute_spending
    compare_transactions,   \* optional list[Transaction] of the prior period
    min_occurrences,        \* min_occurrences argument of detect_recurring
    limit,                  \* limit argument of compute_merchant_summary
    type_filter,            \* optional type_filter of compute_merchant_summary
    spending,               \* result of compute_spending, or Unset
    recurring,              \* result of detect_recurring, or Unset
    merchants,              \* result of compute_merchant_summary, or Unset
    categorized,            \* list[Transaction] with categories, for suggest_rules
    payee_name,             \* payee name handed to _extract_merchant_key
    category_items,         \* list of category dicts handed to _parse_category_list
    customers,              \* result of compute_top_customers, or Unset
    suggestions,            \* result of suggest_rules, or Unset
    transfer_ids,           \* result of get_transfer_category_ids, or Unset
    extracted_key,          \* result of _extract_merchant_key, or Unset
    parsed                  \* result of _parse_category_list, or Unset

\* what an invocation hands to the engine; no function changes it
inputs == <<today, transactions, transfer_category_ids, accounts, active_groups,
            months, granularity, categories, compare_transactions,
            min_occurrences, limit, type_filter, categorized, payee_name,
            category_items>>

vars == <<inputs, filtered, extracted, range, period, previous, cashflow, history,
          spending, recurring, merchants, customers, suggestions, transfer_ids,
          extracted_key, parsed>>

-----------------------------------------------------------------------------
(* Bounds of the model *)

\* longest transaction list handed to the engine
MaxTx == 2

\* longest span (end - start, in days) handed to get_previous_period
MaxSpan == 33

\* largest months argument handed to an aggregator
MaxMonths == 3

\* longest transaction list handed to compute_spending with a comparison
MaxSpendingTx == 3

\* longest list of comparison transactions handed to compute_spending
MaxCompareTx == 1

\* longest transaction list handed to detect_recurring
MaxRecurringTx == 4

\* longest transaction list handed to compute_merchant_summary
MaxMerchantTx == 3

\* longest transaction list handed to compute_top_customers
MaxCustomerTx == 3

\* longest list of uncategorized transactions handed to suggest_rules
MaxUncategorized == 3

\* longest list of categorized transactions handed to suggest_rules
MaxCategorized == 3

\* longest category list handed to get_transfer_category_ids
MaxCategories == 3

\* most pieces a payee name handed to the merchant keyer is spelled from
MaxNameParts == 4

\* longest category list handed to _parse_category_list
MaxCategoryItems == 4

\* longest transaction list handed to all operations of one invocation
MaxEngineTx == 2

-----------------------------------------------------------------------------
(* Generic helpers *)

\* a result variable before the call
Unset == [set |-> FALSE]

Done(v) == [set |-> TRUE, val |-> v]

None == [some |-> FALSE]

Some(v) == [some |-> TRUE, val |-> v]

\* no function of the engine has been called yet
NothingComputed ==
    /\ filtered = Unset
    /\ extracted = Unset
    /\ range = Unset
    /\ period = Unset
    /\ previous = Unset
    /\ cashflow = Unset
    /\ history = Unset
    /\ spending = Unset
    /\ recurring = Unset
    /\ merchants = Unset
    /\ customers = Unset
    /\ suggestions = Unset
    /\ transfer_ids = Unset
    /\ extracted_key = Unset
    /\ parsed = Unset

\* the arguments of the rule engine and of the parsers, for the functions
\* that take none of them
NoRuleArguments ==
    /\ categorized = <<>>
    /\ payee_name = <<>>
    /\ category_items = <<>>

\* the arguments of the reports, for the functions that take none of them
NoReportArguments ==
    /\ categories = <<>>
    /\ compare_transactions = None
    /\ min_occurrences = 3
    /\ limit = 20
    /\ type_filter = None
    /\ NoRuleArguments

\* sequences over S of length 0..n
SeqsUpTo(S, n) == UNION {[1..k -> S] : k \in 0..n}

\* the value of a local variable that is assigned once: {body : v \in {e}}
\* is the one-element set of body with v bound to the value of e
Only(S) == CHOOSE x \in S : TRUE

-----------------------------------------------------------------------------
(* datetime.date: the proleptic Gregorian calendar *)

Date(y, m, d) == [year |-> y, month |-> m, day |-> d]

IsLeap(y) == (y % 4 = 0) /\ ((y % 100 # 0) \/ (y % 400 = 0))

DaysInMonth(y, m) ==
    IF m = 2 THEN (IF IsLeap(y) THEN 29 ELSE 28)
    ELSE IF m \in {4, 6, 9, 11} THEN 30 ELSE 31

\* number of days before January 1st of year y
DaysBeforeYear(y) ==
    LET p == y - 1 IN p * 365 + (p \div 4) - (p \div 100) + (p \div 400)

RECURSIVE DaysBeforeMonth(_, _)
\* number of days in year y before the first day of month m
DaysBeforeMonth(y, m) ==
    IF m = 1 THEN 0 ELSE DaysBeforeMonth(y, m - 1) + DaysInMonth(y, m - 1)

\* date.toordinal(): January 1st of year 1 is day 1
ToOrdinal(d) == DaysBeforeYear(d.year) + DaysBeforeMonth(d.year, d.month) + d.day

\* date.fromordinal(n)
FromOrdinal(ord) ==
    LET n0   == ord - 1
        n400 == n0 \div 146097
        r400 == n0 % 146097
        n100 == r400 \div 36524
        r100 == r400 % 36524
        n4   == r100 \div 1461
        r4   == r100 % 1461
        n1   == r4 \div 365
        n    == r4 % 365
        y    == n400 * 400 + 1 + n100 * 100 + n4 * 4 + n1
    IN  IF n1 = 4 \/ n100 = 4
        THEN Date(y - 1, 12, 31)
        ELSE LET m0   == (n + 50) \div 32
                 pre0 == DaysBeforeMonth(y, m0)
                 m    == IF pre0 > n THEN m0 - 1 ELSE m0
                 pre  == DaysBeforeMonth(y, m)
             IN  Date(y, m, n - pre + 1)

\* date - timedelta(days=k)
MinusDays(d, k) == FromOrdinal(ToOrdinal(d) - k)

\* (a - b).days
DaysBetween(a, b) == ToOrdinal(a) - ToOrdinal(b)

\* a < b on dates
DateLess(a, b) ==
    \/ a.year < b.year
    \/ a.year = b.year /\ a.month < b.month
    \/ a.year = b.year /\ a.month = b.month /\ a.day < b.day

MonthName(m) ==
    <<"January", "February", "March", "April", "May", "June", "July",
      "August", "September", "October", "November", "December">>[m]

\* d.strftime("%B %Y")
MonthYearLabel(d) == <<MonthName(d.month), d.year>>

\* the calendar years the model draws its dates from (2024 is a leap year)
Years == 2023..2025

Dates == {Date(y, m, d) : y \in Years, m \in 1..12, d \in 1..31} \
         {dt \in {Date(y, m, d) : y \in Years, m \in 1..12, d \in 29..31} :
              dt.day > DaysInMonth(dt.year, dt.month)}

-----------------------------------------------------------------------------
(* str.lower() on group labels *)

UpperLetters ==
    <<"A", "B", "C", "D", "E", "F", "G", "H", "I", "J", "K", "L", "M",
      "N", "O", "P", "Q", "R", "S", "T", "U", "V", "W", "X", "Y", "Z">>

LowerLetters ==
    <<"a", "b", "c", "d", "e", "f", "g", "h", "i", "j", "k", "l", "m",
      "n", "o", "p", "q", "r", "s", "t", "u", "v", "w", "x", "y", "z">>

LowerChar(c) ==
    IF \E i \in DOMAIN UpperLetters : UpperLetters[i] = c
    THEN LowerLetters[CHOOSE i \in DOMAIN UpperLetters : UpperLetters[i] = c]
    ELSE c

Lower(s) == [i \in DOMAIN s |-> LowerChar(s[i])]

EmptyStr == <<>>

-----------------------------------------------------------------------------
(* str methods on payee names; a name is a sequence of characters *)

\* c.isdigit()
IsDigitChar(c) == c \in {"0", "1", "2", "3", "4", "5", "6", "7", "8", "9"}

\* c.isalpha()
IsAlphaChar(c) ==
    \E i \in DOMAIN UpperLetters : c = UpperLetters[i] \/ c = LowerLetters[i]

\* s.strip()
Strip(s) ==
    LET solid == {i \in DOMAIN s : s[i] # " "}
    IN  IF solid = {} THEN EmptyStr
        ELSE SubSeq(s, CHOOSE i \in solid : \A j \in solid : i <= j,
                       CHOOSE i \in solid : \A j \in solid : j <= i)

\* s.startswith(prefix)
StartsWith(s, prefix) ==
    Len(s) >= Len(prefix) /\ SubSeq(s, 1, Len(prefix)) = prefix

\* c in s
Contains(s, c) == \E i \in DOMAIN s : s[i] = c

\* s.split(c, 1)[0] when c occurs in s
BeforeFirst(s, c) ==
    SubSeq(s, 1, (CHOOSE i \in DOMAIN s :
                      s[i] = c /\ \A j \in 1..(i - 1) : s[j] # c) - 1)

\* s.split(c, 1)[1] when c occurs in s
AfterFirst(s, c) ==
    SubSeq(s, (CHOOSE i \in DOMAIN s :
                   s[i] = c /\ \A j \in 1..(i - 1) : s[j] # c) + 1, Len(s))

RECURSIVE Split(_)
\* s.split(): the maximal runs of non-blank characters
Split(s) ==
    LET t == Strip(s)
    IN  IF t = EmptyStr THEN <<>>
        ELSE IF Contains(t, " ")
             THEN <<BeforeFirst(t, " ")>> \o Split(AfterFirst(t, " "))
             ELSE <<t>>

RECURSIVE Join(_)
\* " ".join(parts)
Join(parts) ==
    IF parts = <<>> THEN EmptyStr
    ELSE IF Len(parts) = 1 THEN parts[1]
    ELSE parts[1] \o <<" ">> \o Join(Tail(parts))

\* parts up to, and without, its first position in hits: a loop left by break
TakeBefore(parts, hits) ==
    IF hits = {} THEN parts
    ELSE SubSeq(parts, 1, (CHOOSE i \in hits : \A j \in hits : i <= j) - 1)

\* number of digits in a token
DigitCount(part) == Cardinality({i \in DOMAIN part : IsDigitChar(part[i])})

-----------------------------------------------------------------------------
(* Merchant key: rules._normalize_name / rules._extract_merchant_key *)

\* a PayPal token that ends the merchant name: a number or a transaction code
IsPaypalCode(part) ==
    \/ (part # EmptyStr /\ \A i \in DOMAIN part : IsDigitChar(part[i]))
    \/ (Len(part) >= 3 /\ 2 * DigitCount(part) > Len(part))

\* _normalize_name, PayPal branch: clean_parts of the lower-cased name
paypal_clean_parts(name) ==
    Only({TakeBefore(parts, {i \in DOMAIN parts : IsPaypalCode(parts[i])}) :
             parts \in {Split(Strip(AfterFirst(name, "*")))}})

\* _normalize_name, after name = name.strip().lower()
normalize_stripped(name) ==
    IF \/ StartsWith(name, <<"p", "a", "y", "p", "a", "l", " ", "*">>)
       \/ StartsWith(name, <<"p", "a", "y", "p", "a", "l", "*">>)
    THEN Only({IF clean_parts # <<>>
               THEN <<"p", "a", "y", "p", "a", "l", ":">> \o Join(clean_parts)
               ELSE name : clean_parts \in {paypal_clean_parts(name)}})
    ELSE name

\* _normalize_name(name)
_normalize_name(raw) ==
    Only({normalize_stripped(name) : name \in {Lower(Strip(raw))}})

\* a location code or transaction id that ends the merchant name
IsTrailingCode(part) ==
    \/ /\ Len(part) >= 5
       /\ \E i \in DOMAIN part : IsDigitChar(part[i])
       /\ \E i \in DOMAIN part : IsAlphaChar(part[i])
    \/ part \in {<<"l", "u", "x">>,
                 <<"l", "u", "x", "e", "m", "b", "o", "u", "r", "g">>,
                 <<"d", "e", "u">>, <<"c", "h", "e">>, <<"e", "s", "p">>,
                 <<"g", "b", "r">>}

\* _extract_merchant_key: clean_parts joined, for the tokens of the name
key_of_parts(parts, head) ==
    IF Len(parts) > 1
    THEN Only({Join(<<parts[1]>>
                    \o TakeBefore(rest, {i \in DOMAIN rest :
                                            IsTrailingCode(rest[i])})) :
                  rest \in {Tail(parts)}})
    ELSE head

\* _extract_merchant_key, after the part behind a "/" is cut off
key_of_head(head) ==
    Only({key_of_parts(parts, head) : parts \in {Split(head)}})

\* _extract_merchant_key, after normalized = _normalize_name(name)
key_of_normalized(normalized) ==
    IF StartsWith(normalized, <<"p", "a", "y", "p", "a", "l", ":">>)
    THEN normalized
    ELSE Only({key_of_head(head) :
                  head \in {IF Contains(normalized, "/")
                            THEN Strip(BeforeFirst(normalized, "/"))
                            ELSE normalized}})

\* _extract_merchant_key(name)
_extract_merchant_key(raw) ==
    Only({key_of_normalized(normalized) : normalized \in {_normalize_name(raw)}})

-----------------------------------------------------------------------------
(* Transfer categories: get_transfer_category_ids *)

TRANSFER_CATEGORY_ROOT ==
    <<"U", "m", "b", "u", "c", "h", "u", "n", "g", "e", "n">>

\* the ids of the categories whose path is the root label itself
get_transfer_category_ids_root_only(cats) ==
    {cats[c].id : c \in {c \in DOMAIN cats :
                            cats[c].path = TRANSFER_CATEGORY_ROOT}}

\* get_transfer_category_ids(categories); a path is a sequence of characters
get_transfer_category_ids(cats) ==
    {cats[c].id : c \in {c \in DOMAIN cats :
                            /\ cats[c].path # EmptyStr
                            /\ StartsWith(cats[c].path, TRANSFER_CATEGORY_ROOT)}}

-----------------------------------------------------------------------------
(* Transfer classifier: filter_transfers / extract_transfers *)

\* Transaction.category_id is None
NoCategory == "<None>"

\* build_own_iban_set(accounts): every non-empty IBAN and account number
build_own_iban_set(accs) ==
    ({accs[i].iban : i \in DOMAIN accs} \cup
     {accs[i].account_number : i \in DOMAIN accs}) \ {""}

\* build_iban_to_group(accounts)[key], with the default of dict.get(key, "");
\* a later account overwrites the entry of an earlier one
iban_to_group_get(accs, key) ==
    LET hits == {i \in DOMAIN accs :
                    \/ accs[i].iban # "" /\ accs[i].iban = key
                    \/ accs[i].account_number # "" /\ accs[i].account_number = key}
    IN  IF hits = {} THEN EmptyStr
        ELSE Lower(accs[CHOOSE i \in hits : \A j \in hits : j <= i].group)

\* get_account_group without the .lower()
get_account_group_cased(account_id, accs) ==
    LET hits == {i \in DOMAIN accs : accs[i].id = account_id}
    IN  IF hits = {} THEN EmptyStr
        ELSE accs[CHOOSE i \in hits : \A j \in hits : i <= j].group

\* get_account_group(account_id, accounts): the first account with that id
get_account_group(account_id, accs) ==
    LET hits == {i \in DOMAIN accs : accs[i].id = account_id}
    IN  IF hits = {} THEN EmptyStr
        ELSE Lower(accs[CHOOSE i \in hits : \A j \in hits : i <= j].group)

\* the IBAN branch of both loops is taken for tx
IbanDetected(tx, accs) ==
    /\ accs.some
    /\ tx.counterparty_iban # ""
    /\ tx.counterparty_iban \in build_own_iban_set(accs.val)

\* groups_lower is truthy: a non-empty active-group list was given
GroupsGiven(groups) == groups.some /\ Len(groups.val) > 0

\* filter_transfers with the category test ahead of the IBAN test
FilterKeepsCategoryFirst(tx, ids, accs, groups) ==
    IF tx.category_id \in ids THEN FALSE
    ELSE IF IbanDetected(tx, accs)
         THEN /\ GroupsGiven(groups)
              /\ get_account_group(tx.account_id, accs.val)
                     # iban_to_group_get(accs.val, tx.counterparty_iban)
         ELSE TRUE

\* filter_transfers whose category fallback runs only without account data
FilterKeepsNoFallback(tx, ids, accs, groups) ==
    IF IbanDetected(tx, accs)
    THEN /\ GroupsGiven(groups)
         /\ get_account_group(tx.account_id, accs.val)
                # iban_to_group_get(accs.val, tx.counterparty_iban)
    ELSE accs.some \/ tx.category_id \notin ids

\* filter_transfers whose cross-group exception asks for the booked account's
\* group to be one of the active groups
FilterKeepsActiveOnly(tx, ids, accs, groups) ==
    IF IbanDetected(tx, accs)
    THEN /\ GroupsGiven(groups)
         /\ \E k \in DOMAIN groups.val :
                Lower(groups.val[k]) = get_account_group(tx.account_id, accs.val)
         /\ get_account_group(tx.account_id, accs.val)
                # iban_to_group_get(accs.val, tx.counterparty_iban)
    ELSE tx.category_id \notin ids

\* one iteration of the loop of filter_transfers: TRUE iff tx is appended
FilterKeeps(tx, ids, accs, groups) ==
    IF IbanDetected(tx, accs)
    THEN /\ GroupsGiven(groups)
         /\ get_account_group(tx.account_id, accs.val)
                # iban_to_group_get(accs.val, tx.counterparty_iban)
    ELSE tx.category_id \notin ids

\* filter_transfers(transactions, transfer_category_ids, accounts, active_groups)
filter_transfers(txs, ids, accs, groups) ==
    SelectSeq(txs, LAMBDA tx : FilterKeeps(tx, ids, accs, groups))

\* extract_transfers without the IBAN signal
ExtractKeepsCategoryOnly(tx, ids, accs) == tx.category_id \in ids

\* extract_transfers with the cross-group exception of filter_transfers
ExtractKeepsSameGroupOnly(tx, ids, accs) ==
    IF IbanDetected(tx, accs)
    THEN get_account_group(tx.account_id, accs.val)
             = iban_to_group_get(accs.val, tx.counterparty_iban)
    ELSE tx.category_id \in ids

\* one iteration of the loop of extract_transfers: TRUE iff tx is appended
ExtractKeeps(tx, ids, accs) ==
    IF IbanDetected(tx, accs) THEN TRUE ELSE tx.category_id \in ids

\* extract_transfers(transactions, transfer_category_ids, accounts)
extract_transfers(txs, ids, accs) ==
    SelectSeq(txs, LAMBDA tx : ExtractKeeps(tx, ids, accs))

-----------------------------------------------------------------------------
(* Inputs of the transfer classifier *)

Groups == {<<"P", "r">>, <<"p", "r">>, <<"F", "a">>}

\* (iban, account_number) of an own account: known by its IBAN or by its
\* account number
OwnNumbers == {<<"DE1", "">>, <<"", "N2">>}

Account(id, nums, grp, bal) ==
    [id |-> id, name |-> id, iban |-> nums[1], account_number |-> nums[2],
     group |-> grp, balance |-> bal]

AccountIds == {"a1", "a2"}

TransferAccountOf(id) == {Account(id, n, g, 0) : n \in OwnNumbers, g \in Groups}

\* account snapshots: account ids are unique (MoneyMoney uuids)
TransferAccountLists ==
    {<<>>}
    \cup {<<a>> : a \in TransferAccountOf("a1") \cup TransferAccountOf("a2")}
    \cup {<<a, b>> : a \in TransferAccountOf("a1"), b \in TransferAccountOf("a2")}
    \cup {<<b, a>> : a \in TransferAccountOf("a1"), b \in TransferAccountOf("a2")}

Epoch == Date(2024, 1, 1)

Tx(id, acc, bdate, amt, cat, cp) ==
    [id |-> id, account_id |-> acc, booking_date |-> bdate, amount |-> amt,
     category_id |-> cat, counterparty_iban |-> cp]

\* the fields of a transaction the classifier reads
TransferTxFields ==
    [account_id : AccountIds, category_id : {NoCategory, "c1"},
     counterparty_iban : {"", "DE1", "N2"}]

\* transaction lists; a transaction's id is its position in the list
TransferTxLists ==
    {[i \in DOMAIN fs |->
         Tx(i, fs[i].account_id, Epoch, 0, fs[i].category_id,
            fs[i].counterparty_iban)] : fs \in SeqsUpTo(TransferTxFields, MaxTx)}

InitTransfers ==
    /\ today = Epoch
    /\ transactions \in TransferTxLists
    /\ transfer_category_ids \in SUBSET {"c1"}
    /\ accounts \in {None} \cup {Some(l) : l \in TransferAccountLists}
    /\ active_groups \in {None, Some(<<>>), Some(<<<<"P", "r">>>>)}
    /\ months = 0
    /\ granularity = "monthly"
    /\ NoReportArguments
    /\ NothingComputed

FilterTransfers ==
    /\ ~filtered.set
    /\ filtered' = Done(filter_transfers(transactions, transfer_category_ids,
                                         accounts, active_groups))
    /\ UNCHANGED <<inputs, extracted, range, period, previous, cashflow, history,
                 spending, recurring, merchants,
                   customers, suggestions, transfer_ids, extracted_key,
                   parsed>>

ExtractTransfers ==
    /\ ~extracted.set
    /\ extracted' = Done(extract_transfers(transactions, transfer_category_ids,
                                           accounts))
    /\ UNCHANGED <<inputs, filtered, range, period, previous, cashflow, history,
                 spending, recurring, merchants,
                   customers, suggestions, transfer_ids, extracted_key,
                   parsed>>

NextTransfers == FilterTransfers \/ ExtractTransfers

SpecTransfers == InitTransfers /\ [][NextTransfers]_vars

-----------------------------------------------------------------------------
(* Period resolver: resolve_period / get_previous_period *)

\* a returned (start, end, label)
Period(start, end, label) ==
    [ok |-> TRUE, start |-> start, end |-> end, label |-> label]

\* raise ValueError(f"Unknown period: {period_name}. Use: ...")
UnknownPeriod(name) ==
    [ok |-> FALSE, error |-> "ValueError", value |-> name,
     valid |-> <<"this-month", "last-month", "this-quarter", "last-quarter",
                 "this-year">>]

\* the "this-month" branch with a December case that forgets year + 1
this_month_same_year(t) ==
    LET start == Date(t.year, t.month, 1)
        end   == IF t.month = 12
                 THEN MinusDays(Date(t.year, 1, 1), 1)
                 ELSE MinusDays(Date(t.year, t.month + 1, 1), 1)
    IN  Period(start, end, MonthYearLabel(t))

\* resolve_period, branch period_name == "this-month"
this_month(t) ==
    LET start == Date(t.year, t.month, 1)
        end   == IF t.month = 12
                 THEN MinusDays(Date(t.year + 1, 1, 1), 1)
                 ELSE MinusDays(Date(t.year, t.month + 1, 1), 1)
    IN  Period(start, end, MonthYearLabel(t))

\* resolve_period, branch period_name == "last-month"
last_month(t) ==
    LET first_this_month == Date(t.year, t.month, 1)
        end   == MinusDays(first_this_month, 1)
        start == Date(end.year, end.month, 1)
    IN  Period(start, end, MonthYearLabel(start))

\* resolve_period, branch period_name == "this-quarter"
this_quarter(t) ==
    LET quarter   == (t.month - 1) \div 3
        start     == Date(t.year, quarter * 3 + 1, 1)
        end_month == quarter * 3 + 3
        end       == IF end_month = 12
                     THEN Date(t.year, 12, 31)
                     ELSE MinusDays(Date(t.year, end_month + 1, 1), 1)
    IN  Period(start, end, <<"Q", quarter + 1, t.year>>)

\* the "last-quarter" branch whose first-quarter case stays in today's year
last_quarter_same_year(t) ==
    LET quarter == (t.month - 1) \div 3
    IN  IF quarter = 0
        THEN Period(Date(t.year, 10, 1), Date(t.year, 12, 31),
                    <<"Q", 4, t.year>>)
        ELSE LET prev_q    == quarter - 1
                 start     == Date(t.year, prev_q * 3 + 1, 1)
                 end_month == prev_q * 3 + 3
                 end       == IF end_month = 12
                              THEN Date(t.year, 12, 31)
                              ELSE MinusDays(Date(t.year, end_month + 1, 1), 1)
             IN  Period(start, end, <<"Q", prev_q + 1, t.year>>)

\* resolve_period, branch period_name == "last-quarter"
last_quarter(t) ==
    LET quarter == (t.month - 1) \div 3
    IN  IF quarter = 0
        THEN Period(Date(t.year - 1, 10, 1), Date(t.year - 1, 12, 31),
                    <<"Q", 4, t.year - 1>>)
        ELSE LET prev_q    == quarter - 1
                 start     == Date(t.year, prev_q * 3 + 1, 1)
                 end_month == prev_q * 3 + 3
                 end       == IF end_month = 12
                              THEN Date(t.year, 12, 31)
                              ELSE MinusDays(Date(t.year, end_month + 1, 1), 1)
             IN  Period(start, end, <<"Q", prev_q + 1, t.year>>)

\* resolve_period, branch period_name == "this-year"
this_year(t) == Period(Date(t.year, 1, 1), Date(t.year, 12, 31), <<t.year>>)

\* resolve_period with an unknown keyword read as "this-month"
resolve_period_lenient(period_name, t) ==
    IF period_name = "this-month" THEN this_month(t)
    ELSE IF period_name = "last-month" THEN last_month(t)
    ELSE IF period_name = "this-quarter" THEN this_quarter(t)
    ELSE IF period_name = "last-quarter" THEN last_quarter(t)
    ELSE IF period_name = "this-year" THEN this_year(t)
    ELSE this_month(t)

\* resolve_period(period_name) with date.today() = t
resolve_period(period_name, t) ==
    IF period_name = "this-month" THEN this_month(t)
    ELSE IF period_name = "last-month" THEN last_month(t)
    ELSE IF period_name = "this-quarter" THEN this_quarter(t)
    ELSE IF period_name = "last-quarter" THEN last_quarter(t)
    ELSE IF period_name = "this-year" THEN this_year(t)
    ELSE UnknownPeriod(period_name)

\* the monthly branch taken for every range
is_monthly_never(start, duration) == FALSE

\* get_previous_period: the test that detects a monthly period
is_monthly(start, duration) ==
    start.day = 1 /\ 27 <= duration /\ duration <= 31

\* the monthly branch whose January case stays in the year of start
previous_month_same_year(start) ==
    IF start.month = 1
    THEN LET prev_start == Date(start.year, 12, 1)
             prev_end   == Date(start.year, 12, 31)
         IN  Period(prev_start, prev_end, MonthYearLabel(prev_start))
    ELSE LET prev_start == Date(start.year, start.month - 1, start.day)
             prev_end   == IF start.month - 1 = 12
                           THEN Date(start.year, 12, 31)
                           ELSE MinusDays(start, 1)
         IN  Period(prev_start, prev_end, MonthYearLabel(prev_start))

\* get_previous_period: the monthly branch
previous_month(start) ==
    IF start.month = 1
    THEN LET prev_start == Date(start.year - 1, 12, 1)
             prev_end   == Date(start.year - 1, 12, 31)
         IN  Period(prev_start, prev_end, MonthYearLabel(prev_start))
    ELSE LET prev_start == Date(start.year, start.month - 1, start.day)
             prev_end   == IF start.month - 1 = 12
                           THEN Date(start.year, 12, 31)
                           ELSE MinusDays(start, 1)
         IN  Period(prev_start, prev_end, MonthYearLabel(prev_start))

\* the generic branch with prev_start counted from start, one day late
previous_shift_short(start, duration) ==
    LET prev_end   == MinusDays(start, 1)
        prev_start == MinusDays(start, duration)
    IN  Period(prev_start, prev_end, <<prev_start, "-", prev_end>>)

\* get_previous_period: the generic branch
previous_shift(start, duration) ==
    LET prev_end   == MinusDays(start, 1)
        prev_start == MinusDays(prev_end, duration)
    IN  Period(prev_start, prev_end, <<prev_start, "-", prev_end>>)

\* get_previous_period(start, end)
get_previous_period(start, end) ==
    LET duration == DaysBetween(end, start)
    IN  IF is_monthly(start, duration)
        THEN previous_month(start)
        ELSE previous_shift(start, duration)

\* the period keywords a caller passes; "next-month" is no keyword
PeriodNames ==
    {"this-month", "last-month", "this-quarter", "last-quarter", "this-year",
     "next-month"}

\* the period resolver reads no snapshot
NoSnapshot ==
    /\ transactions = <<>>
    /\ transfer_category_ids = {}
    /\ accounts = None
    /\ active_groups = None
    /\ months = 0
    /\ granularity = "monthly"
    /\ NoReportArguments

InitPeriod ==
    /\ today \in Dates
    /\ NoSnapshot
    /\ NothingComputed

\* start, end, label = resolve_period(name)
ResolvePeriod(name) ==
    /\ ~period.set
    /\ period' = Done([name |-> name, result |-> resolve_period(name, today)])
    /\ UNCHANGED <<inputs, filtered, extracted, range, previous, cashflow, history,
                 spending, recurring, merchants,
                   customers, suggestions, transfer_ids, extracted_key,
                   parsed>>

\* get_previous_period(start, end) on the resolved period (--compare)
PreviousOfPeriod ==
    /\ period.set
    /\ period.val.result.ok
    /\ ~previous.set
    /\ range' = Done([start |-> period.val.result.start,
                      end |-> period.val.result.end])
    /\ previous' = Done(get_previous_period(period.val.result.start,
                                            period.val.result.end))
    /\ UNCHANGED <<inputs, filtered, extracted, period, cashflow, history,
                 spending, recurring, merchants,
                   customers, suggestions, transfer_ids, extracted_key,
                   parsed>>

NextPeriod == (\E name \in PeriodNames : ResolvePeriod(name)) \/ PreviousOfPeriod

SpecPeriod == InitPeriod /\ [][NextPeriod]_vars

\* explicit ranges (--from / --to): every start date, every span up to MaxSpan
Ranges ==
    {[start |-> d, end |-> FromOrdinal(ToOrdinal(d) + k)] :
         d \in Dates, k \in 0..MaxSpan}

InitPrevious ==
    /\ today = Epoch
    /\ NoSnapshot
    /\ range \in {Done(r) : r \in Ranges}
    /\ filtered = Unset
    /\ extracted = Unset
    /\ period = Unset
    /\ previous = Unset
    /\ cashflow = Unset
    /\ history = Unset
    /\ spending = Unset
    /\ recurring = Unset
    /\ merchants = Unset
    /\ customers = Unset
    /\ suggestions = Unset
    /\ transfer_ids = Unset
    /\ extracted_key = Unset
    /\ parsed = Unset

\* get_previous_period(start, end) on an explicit range
GetPreviousPeriod ==
    /\ range.set
    /\ ~previous.set
    /\ previous' = Done(get_previous_period(range.val.start, range.val.end))
    /\ UNCHANGED <<inputs, filtered, extracted, range, period, cashflow, history,
                 spending, recurring, merchants,
                   customers, suggestions, transfer_ids, extracted_key,
                   parsed>>

NextPrevious == GetPreviousPeriod

SpecPrevious == InitPrevious /\ [][NextPrevious]_vars

-----------------------------------------------------------------------------
(* Cashflow aggregator: compute_cashflow *)

\* _month_label(d): 'YYYY-MM'
_month_label(d) == [year |-> d.year, kind |-> "-", n |-> d.month]

\* _quarter_label(d): 'YYYY-Qn'
_quarter_label(d) == [year |-> d.year, kind |-> "-Q", n |-> (d.month - 1) \div 3 + 1]

\* a < b on the labels of one granularity, as strings
LabelLess(a, b) == a.year < b.year \/ (a.year = b.year /\ a.n < b.n)

RECURSIVE SortedLabels(_)
\* sorted(labels)
SortedLabels(S) ==
    IF S = {} THEN <<>>
    ELSE LET least == CHOOSE a \in S : \A b \in S \ {a} : LabelLess(a, b)
         IN  <<least>> \o SortedLabels(S \ {least})

Reverse(q) == [i \in DOMAIN q |-> q[Len(q) + 1 - i]]

RECURSIVE SumAmounts(_, _)
\* the sum of the amounts of the transactions at the positions in S
SumAmounts(txs, S) ==
    IF S = {} THEN 0
    ELSE LET i == CHOOSE j \in S : TRUE
         IN  txs[i].amount + SumAmounts(txs, S \ {i})

\* compute_cashflow: cutoff, the first day of the month that lies
\* (months - 1) * 30 days before the first of the current month
cashflow_cutoff(t, n) ==
    LET cutoff == MinusDays(Date(t.year, t.month, 1), (n - 1) * 30)
    IN  Date(cutoff.year, cutoff.month, 1)

\* compute_cashflow with net taken as income minus expenses
compute_cashflow_net_of_magnitudes(txs, n, gran, t) ==
    LET cutoff      == cashflow_cutoff(t, n)
        label_fn(d) == IF gran = "quarterly" THEN _quarter_label(d)
                       ELSE _month_label(d)
        counted     == {i \in DOMAIN txs : ~DateLess(txs[i].booking_date, cutoff)}
        key(i)      == label_fn(txs[i].booking_date)
        labels      == SortedLabels({key(i) : i \in counted})
        bucket(l)   ==
            LET income   == SumAmounts(txs, {i \in counted :
                                key(i) = l /\ txs[i].amount > 0})
                expenses == SumAmounts(txs, {i \in counted :
                                key(i) = l /\ ~(txs[i].amount > 0)})
            IN  [period_label |-> l, income |-> income, expenses |-> expenses,
                 net |-> income - expenses,
                 transaction_count |-> Cardinality({i \in counted : key(i) = l})]
    IN  [k \in DOMAIN labels |-> bucket(labels[k])]

\* compute_cashflow(transactions, months, granularity) with date.today() = t
compute_cashflow(txs, n, gran, t) ==
    LET cutoff      == cashflow_cutoff(t, n)
        label_fn(d) == IF gran = "quarterly" THEN _quarter_label(d)
                       ELSE _month_label(d)
        counted     == {i \in DOMAIN txs : ~DateLess(txs[i].booking_date, cutoff)}
        key(i)      == label_fn(txs[i].booking_date)
        labels      == SortedLabels({key(i) : i \in counted})
        bucket(l)   ==
            LET income   == SumAmounts(txs, {i \in counted :
                                key(i) = l /\ txs[i].amount > 0})
                expenses == SumAmounts(txs, {i \in counted :
                                key(i) = l /\ ~(txs[i].amount > 0)})
            IN  [period_label |-> l, income |-> income, expenses |-> expenses,
                 net |-> income + expenses,
                 transaction_count |-> Cardinality({i \in counted : key(i) = l})]
    IN  [k \in DOMAIN labels |-> bucket(labels[k])]

-----------------------------------------------------------------------------
(* Balance history reconstructor: compute_balance_history *)

RECURSIVE MonthLabelsBack30(_, _)
\* the loop going back 30 days instead of to the last day of the month before
MonthLabelsBack30(d, n) ==
    IF n = 0 THEN <<>>
    ELSE <<_month_label(d)>>
             \o MonthLabelsBack30(LET p == MinusDays(d, 30)
                                  IN  Date(p.year, p.month, 1), n - 1)

RECURSIVE MonthLabelsBack(_, _)
\* compute_balance_history: the labels appended by the loop that starts at
\* the first of the month d and goes to the previous month n times
MonthLabelsBack(d, n) ==
    IF n = 0 THEN <<>>
    ELSE <<_month_label(d)>>
             \o MonthLabelsBack(LET p == MinusDays(d, 1)
                                IN  Date(p.year, p.month, 1), n - 1)

\* acct_monthly[account_id].get(month, Decimal("0"))
acct_monthly(txs, account_id, month) ==
    SumAmounts(txs, {i \in DOMAIN txs :
                        /\ txs[i].account_id = account_id
                        /\ _month_label(txs[i].booking_date) = month})

BalanceSnapshot(label, name, bal, chg) ==
    [period_label |-> label, account_name |-> name, balance |-> bal, change |-> chg]

RECURSIVE WalkBack(_, _, _, _, _)
\* the loop over all_months from position i on, balance being the running
\* balance: the snapshots it appends, newest first
WalkBack(acc, txs, all_months, i, balance) ==
    IF i > Len(all_months) THEN <<>>
    ELSE LET month     == all_months[i]
             month_sum == acct_monthly(txs, acc.id, month)
         IN  IF i = 1
             THEN <<BalanceSnapshot(month, acc.name, balance, month_sum)>>
                      \o WalkBack(acc, txs, all_months, i + 1, balance)
             ELSE LET lowered        == balance - month_sum
                      prev_month_sum == acct_monthly(txs, acc.id, all_months[i])
                  IN  <<BalanceSnapshot(month, acc.name, lowered, prev_month_sum)>>
                          \o WalkBack(acc, txs, all_months, i + 1, lowered)

RECURSIVE HistoryFrom(_, _, _, _)
\* the loop over the accounts from position a on
HistoryFrom(accs, txs, all_months, a) ==
    IF a > Len(accs) THEN <<>>
    ELSE Reverse(WalkBack(accs[a], txs, all_months, 1, accs[a].balance))
             \o HistoryFrom(accs, txs, all_months, a + 1)

\* compute_balance_history(accounts, transactions, months) with date.today() = t
compute_balance_history(accs, txs, n, t) ==
    LET month_labels == Reverse(MonthLabelsBack(Date(t.year, t.month, 1), n))
        all_months   == Reverse(SortedLabels({month_labels[k] : k \in DOMAIN month_labels}))
    IN  HistoryFrom(accs, txs, all_months, 1)

-----------------------------------------------------------------------------
(* Generic list helpers of the reports *)

\* abs(x)
Abs(x) == IF x < 0 THEN -x ELSE x

\* the keys of a dict filled in the order of q: first occurrences, in order
RECURSIVE InsertionOrder(_)
InsertionOrder(q) ==
    IF q = <<>> THEN <<>>
    ELSE LET before == InsertionOrder(SubSeq(q, 1, Len(q) - 1))
             last   == q[Len(q)]
         IN  IF \E i \in DOMAIN before : before[i] = last
             THEN before
             ELSE Append(before, last)

\* a list built element by element, each element computed once
Listed(q) == <<>> \o q

\* the place of q[i] in the descending stable order given by the keys ks
RankDescending(ks, i) ==
    Cardinality({j \in DOMAIN ks :
                    ks[j] > ks[i] \/ (ks[j] = ks[i] /\ j < i)}) + 1

\* the place of q[i] in the ascending stable order given by the keys ks
RankAscending(ks, i) ==
    Cardinality({j \in DOMAIN ks :
                    ks[j] < ks[i] \/ (ks[j] = ks[i] /\ j < i)}) + 1

\* list.sort(key=..., reverse=True): q by descending keys[i]; the sort is
\* stable, so equal keys keep the order they have in q
SortDescending(q, keys) ==
    Only({Listed([r \in DOMAIN items |->
                     items[CHOOSE i \in DOMAIN items :
                               RankDescending(ks, i) = r]]) :
             items \in {Listed(q)}, ks \in {Listed(keys)}})

\* list.sort(key=...): q by ascending keys[i], stable
SortAscending(q, keys) ==
    Only({Listed([r \in DOMAIN items |->
                     items[CHOOSE i \in DOMAIN items :
                               RankAscending(ks, i) = r]]) :
             items \in {Listed(q)}, ks \in {Listed(keys)}})

\* (n / d).quantize(...) in the default context: n / d rounded to the nearest
\* integer, a tie to the even one (ROUND_HALF_EVEN); d > 0
RoundHalfEven(n, d) ==
    LET q  == Abs(n) \div d
        r  == Abs(n) % d
        m  == IF 2 * r > d \/ (2 * r = d /\ q % 2 = 1) THEN q + 1 ELSE q
    IN  IF n < 0 THEN -m ELSE m

\* sum(amounts) of a list of amounts
RECURSIVE Sum(_)
Sum(q) == IF q = <<>> THEN 0 ELSE q[1] + Sum(Tail(q))

-----------------------------------------------------------------------------
(* Spending report: compute_spending *)

\* category_name = None
NoName == "<None>"

\* Transaction(...) with the fields the reports read
Transaction(id, bdate, amt, name, cat, cat_name) ==
    [id |-> id, account_id |-> "a1", booking_date |-> bdate, amount |-> amt,
     name |-> name, category_id |-> cat, category_name |-> cat_name,
     counterparty_iban |-> ""]

\* Category(...) with the fields compute_spending reads; budget is optional
Category(id, name, grp, budget) ==
    [id |-> id, name |-> name, group |-> grp, budget |-> budget,
     budget_period |-> IF budget.some THEN "monthly" ELSE "",
     path |-> name, category_type |-> "expense"]

\* the key without the fallback for a missing name
category_key_raw(tx) == tx.category_name

\* tx.category_name or "(Uncategorized)"
category_key(tx) ==
    IF tx.category_name = NoName \/ tx.category_name = ""
    THEN "(Uncategorized)"
    ELSE tx.category_name

\* cat_by_id.get(id): a later category of the list replaces an earlier one
cat_by_id_get(cats, id) ==
    LET hits == {i \in DOMAIN cats : cats[i].id = id}
    IN  IF hits = {} THEN None
        ELSE Some(cats[CHOOSE i \in hits : \A j \in hits : j <= i])

\* cat_by_name.get(name): only categories that are no group
cat_by_name_get(cats, name) ==
    LET hits == {i \in DOMAIN cats : cats[i].name = name /\ ~cats[i].group}
    IN  IF hits = {} THEN None
        ELSE Some(cats[CHOOSE i \in hits : \A j \in hits : j <= i])

\* current[key]["cat"] after the loop over txs
RECURSIVE current_cat(_, _, _)
current_cat(txs, cats, key) ==
    IF txs = <<>> THEN None
    ELSE LET before == current_cat(SubSeq(txs, 1, Len(txs) - 1), cats, key)
             tx     == txs[Len(txs)]
         IN  IF category_key(tx) # key THEN before
             ELSE IF /\ tx.category_id # NoCategory
                     /\ tx.category_id # ""
                     /\ cat_by_id_get(cats, tx.category_id).some
                  THEN cat_by_id_get(cats, tx.category_id)
             ELSE IF ~before.some /\ cat_by_name_get(cats, key).some
                  THEN cat_by_name_get(cats, key)
             ELSE before

\* the amounts of the transactions of txs under key, in order
amounts_of(txs, key) ==
    LET own == SelectSeq(txs, LAMBDA tx : category_key(tx) = key)
    IN  [i \in DOMAIN own |-> own[i].amount]

\* the budget a record reports: the category's, when present and positive
budget_of(cat) ==
    IF cat.some /\ cat.val.budget.some /\ cat.val.budget.val > 0
    THEN cat.val.budget
    ELSE None

\* budget figures with remaining taken from the signed actual
budget_figures_signed(budget, actual) ==
    IF budget.some /\ budget.val > 0
    THEN [remaining    |-> Some(budget.val - actual),
          percent_used |-> Some(RoundHalfEven(Abs(actual) * 1000, budget.val))]
    ELSE [remaining |-> None, percent_used |-> None]

\* remaining and percent_used (in tenths of a percent) of a record
budget_figures(budget, actual) ==
    IF budget.some /\ budget.val > 0
    THEN [remaining    |-> Some(budget.val - Abs(actual)),
          percent_used |-> Some(RoundHalfEven(Abs(actual) * 1000, budget.val))]
    ELSE [remaining |-> None, percent_used |-> None]

\* compare.get(cat_name) if compare else None
compare_get(compare_txs, key) ==
    IF ~compare_txs.some \/ compare_txs.val = <<>> THEN None
    ELSE IF \E i \in DOMAIN compare_txs.val :
                category_key(compare_txs.val[i]) = key
         THEN Some(Sum(amounts_of(compare_txs.val, key)))
         ELSE None

\* the change computed against the signed prior total
change_signed(actual, compare_actual) ==
    IF compare_actual.some /\ compare_actual.val # 0
    THEN Some(RoundHalfEven((Abs(actual) - compare_actual.val) * 1000,
                            Abs(compare_actual.val)))
    ELSE None

\* compare_change (in tenths of a percent) of a record
change(actual, compare_actual) ==
    IF compare_actual.some /\ compare_actual.val # 0
    THEN Some(RoundHalfEven((Abs(actual) - Abs(compare_actual.val)) * 1000,
                            Abs(compare_actual.val)))
    ELSE None

\* SpendingAnalysis(...) for one key of current
SpendingAnalysis(txs, cats, compare_txs, key) ==
    LET cat     == current_cat(txs, cats, key)
        actual  == Sum(amounts_of(txs, key))
        budget  == budget_of(cat)
        figures == budget_figures(budget, actual)
        compare_actual == compare_get(compare_txs, key)
    IN  [category_name     |-> key,
         category_path     |-> IF ~cat.some THEN key
                               ELSE IF cat.val.path # "" THEN cat.val.path
                               ELSE cat.val.name,
         category_type     |-> IF cat.some THEN cat.val.category_type
                               ELSE "expense",
         actual            |-> actual,
         budget            |-> budget,
         budget_period     |-> IF budget.some THEN cat.val.budget_period ELSE "",
         remaining         |-> figures.remaining,
         percent_used      |-> figures.percent_used,
         transaction_count |-> Len(amounts_of(txs, key)),
         compare_actual    |-> compare_actual,
         compare_change    |-> change(actual, compare_actual)]

\* the final sort done as an ascending sort that is then reversed
sort_by_actual_reversed(results) ==
    Only({Reverse(SortAscending(rs, [i \in DOMAIN rs |-> Abs(rs[i].actual)])) :
             rs \in {results}})

\* results.sort(key=lambda r: abs(r.actual), reverse=True)
sort_by_actual(results) ==
    Only({SortDescending(rs, [i \in DOMAIN rs |-> Abs(rs[i].actual)]) :
             rs \in {results}})

\* compute_spending(transactions, categories, compare_transactions)
compute_spending(txs, cats, compare_txs) ==
    Only({sort_by_actual(Listed([k \in DOMAIN keys |->
                 SpendingAnalysis(txs, cats, compare_txs, keys[k])])) :
             keys \in {InsertionOrder(Listed([i \in DOMAIN txs |->
                                                category_key(txs[i])]))}})

-----------------------------------------------------------------------------
(* Recurring payments: detect_recurring *)

\* the elements of q at the positions idx, in the order of q
AtPositions(q, idx) ==
    [r \in 1..Cardinality(idx) |->
        q[CHOOSE i \in idx : Cardinality({j \in idx : j < i}) = r - 1]]

\* the lists of a dict of lists filled in the order of txs, tx_keys[i] being
\* the key of txs[i]: one list per key, in the order the keys are first met
groups_by_key(txs, tx_keys) ==
    Only({Listed([k \in DOMAIN keys |->
                     Listed(AtPositions(txs, {i \in DOMAIN txs :
                                                 tx_keys[i] = keys[k]}))]) :
             keys \in {InsertionOrder(tx_keys)}})

\* merchant_txs.values(): txs grouped by merchant key
merchant_groups(txs) ==
    Only({groups_by_key(list, Listed([i \in DOMAIN list |->
                                  _extract_merchant_key(list[i].name)])) :
             list \in {txs}})

\* the test that lets a group with one transaction too few pass
qualifies_one_short(txs, min_occ) == Len(txs) >= min_occ - 1

\* not (len(txs) < min_occurrences)
qualifies(txs, min_occ) == Len(txs) >= min_occ

\* txs.sort(key=lambda t: t.booking_date)
by_booking_date(txs) ==
    Only({SortAscending(g, [i \in DOMAIN g |-> ToOrdinal(g[i].booking_date)]) :
             g \in {txs}})

\* the day gaps between consecutive transactions of a sorted group
day_gaps(txs) ==
    [i \in 1..(Len(txs) - 1) |->
        DaysBetween(txs[i + 1].booking_date, txs[i].booking_date)]

\* the intervals with the zero-day gaps kept
intervals_with_zero(txs) == day_gaps(txs)

\* intervals: the gaps of a sorted group that are longer than 0 days
intervals_of(txs) == SelectSeq(day_gaps(txs), LAMBDA delta : delta > 0)

\* frequency, from avg_interval = sum(intervals) / len(intervals)
frequency_of(intervals) ==
    IF Sum(intervals) <= 45 * Len(intervals) THEN "monthly"
    ELSE IF Sum(intervals) <= 120 * Len(intervals) THEN "quarterly"
    ELSE "annual"

\* annual_multiplier of a frequency
annual_multiplier(frequency) ==
    IF frequency = "monthly" THEN 12
    ELSE IF frequency = "quarterly" THEN 4
    ELSE 1

\* max(cat_counts, key=cat_counts.get): the most frequent category name of a
\* sorted group, the one met first among equally frequent ones
most_common_category(txs) ==
    LET names    == InsertionOrder([i \in DOMAIN txs |-> category_key(txs[i])])
        count(n) == Cardinality({i \in DOMAIN txs : category_key(txs[i]) = n})
    IN  names[CHOOSE k \in DOMAIN names :
                  /\ \A j \in DOMAIN names : count(names[j]) <= count(names[k])
                  /\ \A j \in 1..(k - 1) : count(names[j]) < count(names[k])]

\* RecurringTransaction(...) for one sorted group with at least one interval
RecurringTransaction(txs) ==
    LET frequency  == frequency_of(intervals_of(txs))
        amounts    == [i \in DOMAIN txs |-> txs[i].amount]
        avg_amount == RoundHalfEven(Sum(amounts), Len(amounts))
        sizes      == {Abs(amounts[i]) : i \in DOMAIN amounts}
    IN  [merchant_name     |-> txs[Len(txs)].name,
         category_name     |-> most_common_category(txs),
         avg_amount        |-> avg_amount,
         frequency         |-> frequency,
         occurrence_count  |-> Len(txs),
         total_annual_cost |-> Abs(avg_amount) * annual_multiplier(frequency),
         last_date         |-> txs[Len(txs)].booking_date,
         amount_variance   |->
             (CHOOSE a \in sizes : \A b \in sizes : b <= a)
             - (CHOOSE a \in sizes : \A b \in sizes : a <= b)]

\* the groups that are not skipped, each sorted by booking date
recurring_groups(groups, min_occ) ==
    Only({SelectSeq(Listed([k \in DOMAIN gs |-> by_booking_date(gs[k])]),
                    LAMBDA g : intervals_of(g) # <<>>) :
             gs \in {SelectSeq(groups, LAMBDA g : qualifies(g, min_occ))}})

\* results before the final sort
recurring_results(groups) ==
    Only({Listed([k \in DOMAIN gs |-> RecurringTransaction(gs[k])]) :
             gs \in {groups}})

\* results.sort(key=lambda r: r.total_annual_cost, reverse=True)
sort_by_annual_cost(results) ==
    Only({SortDescending(rs, [i \in DOMAIN rs |-> rs[i].total_annual_cost]) :
             rs \in {results}})

\* detect_recurring(transactions, min_occurrences)
detect_recurring(txs, min_occ) ==
    sort_by_annual_cost(
        recurring_results(recurring_groups(merchant_groups(txs), min_occ)))

-----------------------------------------------------------------------------
(* Merchant summary: compute_merchant_summary *)

\* the pre-filter with amounts of zero passed as income
type_filtered_nonnegative(txs, filter) ==
    IF filter = Some("income")
    THEN SelectSeq(txs, LAMBDA tx : tx.amount >= 0)
    ELSE IF filter = Some("expense")
    THEN SelectSeq(txs, LAMBDA tx : tx.amount < 0)
    ELSE txs

\* the transactions left by type_filter
type_filtered(txs, filter) ==
    IF filter = Some("income")
    THEN SelectSeq(txs, LAMBDA tx : tx.amount > 0)
    ELSE IF filter = Some("expense")
    THEN SelectSeq(txs, LAMBDA tx : tx.amount < 0)
    ELSE txs

\* max(name_counts, key=name_counts.get): the most frequent raw name of a
\* group, the one met first among equally frequent ones
most_common_name(txs) ==
    LET names    == InsertionOrder(Listed([i \in DOMAIN txs |-> txs[i].name]))
        count(n) == Cardinality({i \in DOMAIN txs : txs[i].name = n})
    IN  names[CHOOSE k \in DOMAIN names :
                  /\ \A j \in DOMAIN names : count(names[j]) <= count(names[k])
                  /\ \A j \in 1..(k - 1) : count(names[j]) < count(names[k])]

\* MerchantSummary(...) for one group; categories is the set that the code
\* lists in sorted order
MerchantSummary(txs) ==
    LET total == Sum(Listed([i \in DOMAIN txs |-> txs[i].amount]))
        dates == {txs[i].booking_date : i \in DOMAIN txs}
    IN  [merchant_name     |-> most_common_name(txs),
         transaction_count |-> Len(txs),
         total_amount      |-> total,
         avg_amount        |-> RoundHalfEven(total, Len(txs)),
         categories        |-> {category_key(txs[i]) : i \in DOMAIN txs},
         first_date        |-> CHOOSE d \in dates :
                                   \A e \in dates : ~DateLess(e, d),
         last_date         |-> CHOOSE d \in dates :
                                   \A e \in dates : ~DateLess(d, e),
         pct_of_total      |-> None]

\* results before the final sort
merchant_results(groups) ==
    Only({Listed([k \in DOMAIN gs |-> MerchantSummary(gs[k])]) :
             gs \in {groups}})

\* results.sort(key=lambda r: abs(r.total_amount), reverse=True)
sort_by_total(results) ==
    Only({SortDescending(rs, [i \in DOMAIN rs |-> Abs(rs[i].total_amount)]) :
             rs \in {results}})

\* results[:limit] if limit > 0 else results
first_limit(results, n) ==
    Only({IF n > 0 /\ n < Len(rs) THEN SubSeq(rs, 1, n) ELSE rs :
             rs \in {results}})

\* compute_merchant_summary(transactions, limit, type_filter)
compute_merchant_summary(txs, n, filter) ==
    first_limit(
        sort_by_total(merchant_results(merchant_groups(type_filtered(txs, filter)))),
        n)

-----------------------------------------------------------------------------
(* Top customers: compute_top_customers *)

\* the share taken of the returned records instead of all the income
with_pct_of_listed(results, total_income) ==
    Only({[k \in DOMAIN rs |->
              [rs[k] EXCEPT !.pct_of_total =
                  Some(RoundHalfEven(rs[k].total_amount * 1000,
                                     Sum(Listed([j \in DOMAIN rs |->
                                                    rs[j].total_amount]))))]] :
             rs \in {results}})

\* r.pct_of_total = (r.total_amount / total_income * 100).quantize(0.1) for
\* every r in results when total_income > 0; a percentage is an integer
\* number of tenths of a percent
with_pct(results, total_income) ==
    Only({IF total_income > 0
          THEN [k \in DOMAIN rs |->
                   [rs[k] EXCEPT !.pct_of_total =
                       Some(RoundHalfEven(rs[k].total_amount * 1000,
                                          total_income))]]
          ELSE rs : rs \in {results}})

\* compute_top_customers(transactions, limit)
compute_top_customers(txs, n) ==
    Only({with_pct(compute_merchant_summary(income_txs, n, None),
                   Sum(Listed([i \in DOMAIN income_txs |->
                                  income_txs[i].amount]))) :
             income_txs \in {SelectSeq(txs, LAMBDA tx : tx.amount > 0)}})

-----------------------------------------------------------------------------
(* Rule suggestions: rules.suggest_rules *)

\* c.upper()
UpperChar(c) ==
    IF \E i \in DOMAIN LowerLetters : LowerLetters[i] = c
    THEN UpperLetters[CHOOSE i \in DOMAIN LowerLetters : LowerLetters[i] = c]
    ELSE c

\* s.title(): a letter is upper-cased unless it follows a letter
Title(s) ==
    [i \in DOMAIN s |->
        IF i > 1 /\ IsAlphaChar(s[i - 1]) THEN LowerChar(s[i]) ELSE UpperChar(s[i])]

RECURSIVE Without(_, _)
\* s.replace(sub, "") for a non-empty sub
Without(s, sub) ==
    IF Len(s) < Len(sub) THEN s
    ELSE IF StartsWith(s, sub)
         THEN Without(SubSeq(s, Len(sub) + 1, Len(s)), sub)
         ELSE <<s[1]>> \o Without(Tail(s), sub)

\* s.strip('"')
StripQuotes(s) ==
    LET solid == {i \in DOMAIN s : s[i] # "\""}
    IN  IF solid = {} THEN EmptyStr
        ELSE SubSeq(s, CHOOSE i \in solid : \A j \in solid : i <= j,
                       CHOOSE i \in solid : \A j \in solid : j <= i)

\* sub in s
IsSubstring(sub, s) ==
    \E i \in 0..(Len(s) - Len(sub)) : SubSeq(s, i + 1, i + Len(sub)) = sub

\* f'"{s}"'
Quoted(s) == <<"\"">> \o s \o <<"\"">>

\* tx.category_name or ""
name_or_empty(tx) == IF tx.category_name = NoName THEN "" ELSE tx.category_name

\* cat_path of a categorized transaction: the path of the first category
\* with its category_id, else its category name
cat_path_of(tx, cats) ==
    LET hits == {c \in DOMAIN cats : cats[c].id = tx.category_id}
    IN  IF hits = {} THEN name_or_empty(tx)
        ELSE cats[CHOOSE c \in hits : \A d \in hits : c <= d].path

\* name_to_cats as the list of its (key, (category_name, cat_path)) entries
\* in the order of the categorized transactions
name_to_cats(cat_txs, cats) ==
    Listed([i \in DOMAIN cat_txs |->
               [key      |-> _extract_merchant_key(cat_txs[i].name),
                cat_name |-> name_or_empty(cat_txs[i]),
                cat_path |-> cat_path_of(cat_txs[i], cats)]])

\* Counter(c[0] for c in cat_entries).most_common(1)[0]: the most frequent
\* category name and its count, the name met first among equally frequent ones
most_common(cat_entries) ==
    LET names    == InsertionOrder(Listed([i \in DOMAIN cat_entries |->
                                              cat_entries[i].cat_name]))
        count(n) == Cardinality({i \in DOMAIN cat_entries :
                                    cat_entries[i].cat_name = n})
        best     == names[CHOOSE k \in DOMAIN names :
                       /\ \A j \in DOMAIN names : count(names[j]) <= count(names[k])
                       /\ \A j \in 1..(k - 1) : count(names[j]) < count(names[k])]
    IN  <<best, count(best)>>

\* the cat_path of the first entry whose category name is suggested_cat
path_of_first(cat_entries, suggested_cat) ==
    cat_entries[CHOOSE i \in DOMAIN cat_entries :
                    /\ cat_entries[i].cat_name = suggested_cat
                    /\ \A j \in 1..(i - 1) :
                           cat_entries[j].cat_name # suggested_cat].cat_path

\* the branch of an exact merchant key match
exact_match(cat_entries) ==
    [suggested_cat  |-> most_common(cat_entries)[1],
     suggested_path |-> path_of_first(cat_entries, most_common(cat_entries)[1]),
     confidence     |-> IF most_common(cat_entries)[2] >= 3
                        THEN "high" ELSE "medium"]

\* the prefix branch graded like an exact match
prefix_match_as_exact(cat_entries) == exact_match(cat_entries)

\* the branch of a prefix match
prefix_match(cat_entries) ==
    [suggested_cat  |-> most_common(cat_entries)[1],
     suggested_path |-> path_of_first(cat_entries, most_common(cat_entries)[1]),
     confidence     |-> IF most_common(cat_entries)[2] >= 2
                        THEN "medium" ELSE "low"]

\* min_len >= 6 and merchant_key[:min(8, min_len)] == cat_key[:min(8, min_len)]
shares_prefix(merchant_key, cat_key) ==
    LET min_len == IF Len(merchant_key) < Len(cat_key)
                   THEN Len(merchant_key) ELSE Len(cat_key)
        n       == IF 8 < min_len THEN 8 ELSE min_len
    IN  /\ min_len >= 6
        /\ SubSeq(merchant_key, 1, n) = SubSeq(cat_key, 1, n)

\* suggested_cat, suggested_path and confidence found for merchant_key in
\* the entries of name_to_cats
historical_match(merchant_key, entries) ==
    LET cat_keys == InsertionOrder(Listed([i \in DOMAIN entries |-> entries[i].key]))
        sharing  == {k \in DOMAIN cat_keys : shares_prefix(merchant_key, cat_keys[k])}
        of(key)  == SelectSeq(entries, LAMBDA e : e.key = key)
    IN  IF \E i \in DOMAIN entries : entries[i].key = merchant_key
        THEN exact_match(of(merchant_key))
        ELSE IF sharing # {}
        THEN prefix_match(of(cat_keys[CHOOSE k \in sharing :
                                          \A j \in sharing : k <= j]))
        ELSE [suggested_cat |-> "", suggested_path |-> "", confidence |-> "low"]

RECURSIVE shrunk(_, _)
\* the while loop: prefix loses its last character until n starts with it,
\* case aside, or it is 3 characters long
shrunk(prefix, n) ==
    IF ~StartsWith(Lower(n), Lower(prefix)) /\ Len(prefix) > 3
    THEN shrunk(SubSeq(prefix, 1, Len(prefix) - 1), n)
    ELSE prefix

RECURSIVE common_prefix(_, _)
\* the for loop over names[1:] that starts with prefix
common_prefix(prefix, names) ==
    IF names = <<>> THEN prefix
    ELSE common_prefix(shrunk(prefix, names[1]), Tail(names))

\* pattern of a group with the stripped payee names names
pattern_of(merchant_key, names) ==
    IF StartsWith(merchant_key, <<"p", "a", "y", "p", "a", "l", ":">>)
    THEN Quoted(<<"P", "a", "y", "P", "a", "l", " ", "*">>
                    \o Title(Without(merchant_key,
                                     <<"p", "a", "y", "p", "a", "l", ":">>)))
    ELSE IF Len(names) = 1
    THEN Quoted(names[1])
    ELSE IF Len(common_prefix(names[1], Tail(names))) > 3
    THEN Quoted(Strip(common_prefix(names[1], Tail(names))))
    ELSE Quoted(names[1])

\* _check_existing_rules(pattern, categories)[2]: the rules of the first
\* category whose rule text holds the pattern, "" when there is none
_check_existing_rules(pattern, cats) ==
    LET pattern_lower == StripQuotes(Lower(pattern))
        hits == {c \in DOMAIN cats :
                    /\ cats[c].rules # EmptyStr
                    /\ IsSubstring(pattern_lower, Lower(cats[c].rules))}
    IN  IF hits = {} THEN EmptyStr
        ELSE cats[CHOOSE c \in hits : \A d \in hits : c <= d].rules

\* the sample of one transaction; date and amount stand for their printed form
sample_of(tx) ==
    [date |-> tx.booking_date, name |-> tx.name, amount |-> tx.amount,
     purpose |-> EmptyStr]

\* RuleSuggestion(...) from what the loop body has computed for one group
suggestion_of(txs, pattern, found, cats) ==
    [pattern             |-> pattern,
     suggested_category  |-> IF found.suggested_cat # ""
                             THEN found.suggested_cat
                             ELSE "(needs manual assignment)",
     category_path       |-> found.suggested_path,
     match_count         |-> Len(txs),
     total_amount        |-> Sum(Listed([i \in DOMAIN txs |-> txs[i].amount])),
     confidence          |-> IF found.suggested_cat # ""
                             THEN found.confidence ELSE "low",
     existing_rule       |-> _check_existing_rules(StripQuotes(pattern), cats),
     sample_transactions |-> Listed([i \in 1..(IF Len(txs) < 3 THEN Len(txs) ELSE 3)
                                        |-> sample_of(txs[i])])]

\* the loop body for the group txs of merchant_key
RuleSuggestion(merchant_key, txs, entries, cats) ==
    Only({suggestion_of(txs, pattern, found, cats) :
             pattern \in {pattern_of(merchant_key,
                                     Listed([i \in DOMAIN txs |->
                                                Strip(txs[i].name)]))},
             found \in {historical_match(merchant_key, entries)}})

\* confidence_order.get(s.confidence, 3)
confidence_order(confidence) ==
    IF confidence = "high" THEN 0
    ELSE IF confidence = "medium" THEN 1
    ELSE IF confidence = "low" THEN 2
    ELSE 3

\* the sort key with the match count ascending
sort_key_less_count_ascending(s, t) ==
    \/ confidence_order(s.confidence) < confidence_order(t.confidence)
    \/ /\ confidence_order(s.confidence) = confidence_order(t.confidence)
       /\ \/ s.match_count < t.match_count
          \/ /\ s.match_count = t.match_count
             /\ s.total_amount < t.total_amount

\* (confidence_order, -match_count, total_amount) of s is below that of t
sort_key_less(s, t) ==
    \/ confidence_order(s.confidence) < confidence_order(t.confidence)
    \/ /\ confidence_order(s.confidence) = confidence_order(t.confidence)
       /\ \/ -s.match_count < -t.match_count
          \/ /\ s.match_count = t.match_count
             /\ s.total_amount < t.total_amount

\* suggestions.sort(key=...): ascending and stable
sort_suggestions(unsorted) ==
    Only({Listed([r \in DOMAIN ss |->
                     ss[CHOOSE i \in DOMAIN ss :
                            Cardinality({j \in DOMAIN ss :
                                \/ sort_key_less(ss[j], ss[i])
                                \/ /\ ~sort_key_less(ss[i], ss[j])
                                   /\ j < i}) + 1 = r]]) :
             ss \in {unsorted}})

\* the suggestions in the order of uncat_groups; a merchant key is a key of
\* uncat_groups once, so the seen_patterns test never skips a group
suggestions_of(groups, entries, cats) ==
    Listed([k \in DOMAIN groups |->
               RuleSuggestion(_extract_merchant_key(groups[k][1].name),
                              groups[k], entries, cats)])

\* suggest_rules(uncategorized, categorized, categories)
suggest_rules(uncategorized, cat_txs, cats) ==
    Only({sort_suggestions(suggestions_of(groups, entries, cats)) :
             groups \in {merchant_groups(uncategorized)},
             entries \in {name_to_cats(cat_txs, cats)}})

-----------------------------------------------------------------------------
(* Inputs of the aggregators *)

\* the first day of the calendar month k months before the month of d
MonthsBefore(d, k) ==
    LET idx == d.year * 12 + (d.month - 1) - k
    IN  Date(idx \div 12, (idx % 12) + 1, 1)

LastOfMonth(d) == Date(d.year, d.month, DaysInMonth(d.year, d.month))

\* the days on which the aggregators are run
AggregateTodays ==
    {Date(2024, m, 1) : m \in 1..12} \cup {Date(2025, m, 15) : m \in 1..12}

\* booking dates around the edge of an n-month window and in the current month
WindowDates(t, n) ==
    {MonthsBefore(t, 0)}
    \cup {MonthsBefore(t, k) : k \in {n - 1, n}}
    \cup {LastOfMonth(MonthsBefore(t, k)) : k \in {n - 1, n}}

AggregateTxLists(bookings, amounts, accs) ==
    {[i \in DOMAIN fs |->
         Tx(i, fs[i].account_id, fs[i].booking_date, fs[i].amount, NoCategory, "")]
     : fs \in SeqsUpTo([account_id : accs, booking_date : bookings,
                        amount : amounts], MaxTx)}

InitCashflow ==
    /\ today \in AggregateTodays
    /\ months \in 1..MaxMonths
    /\ granularity \in {"monthly", "quarterly"}
    /\ transactions \in AggregateTxLists(WindowDates(today, months),
                                          {-500, 0, 700}, {"a1"})
    /\ transfer_category_ids = {}
    /\ accounts = None
    /\ active_groups = None
    /\ NoReportArguments
    /\ NothingComputed

ComputeCashflow ==
    /\ ~cashflow.set
    /\ cashflow' = Done(compute_cashflow(transactions, months, granularity, today))
    /\ UNCHANGED <<inputs, filtered, extracted, range, period, previous, history,
                 spending, recurring, merchants,
                   customers, suggestions, transfer_ids, extracted_key,
                   parsed>>

NextCashflow == ComputeCashflow

SpecCashflow == InitCashflow /\ [][NextCashflow]_vars

\* the days on which the balance history is reconstructed
HistoryTodays ==
    {Date(2024, 1, 15), Date(2024, 3, 1), Date(2025, 6, 15), Date(2025, 12, 31)}

HistoryAccountOf(id) == {Account(id, <<"", id>>, <<"P", "r">>, b) : b \in {0, 100000}}

HistoryAccountLists ==
    {<<>>}
    \cup {<<a>> : a \in HistoryAccountOf("a1") \cup HistoryAccountOf("a2")}
    \cup {<<a, b>> : a \in HistoryAccountOf("a1"), b \in HistoryAccountOf("a2")}
    \cup {<<b, a>> : a \in HistoryAccountOf("a1"), b \in HistoryAccountOf("a2")}

\* the 10th of each of the n months of the window and of the month before it
HistoryDates(t, n) ==
    {LET f == MonthsBefore(t, k) IN Date(f.year, f.month, 10) : k \in 0..n}

InitHistory ==
    /\ today \in HistoryTodays
    /\ months \in 1..MaxMonths
    /\ granularity = "monthly"
    /\ accounts \in {Some(l) : l \in HistoryAccountLists}
    /\ transactions \in AggregateTxLists(HistoryDates(today, months),
                                          {-20000, 50000}, AccountIds)
    /\ transfer_category_ids = {}
    /\ active_groups = None
    /\ NoReportArguments
    /\ NothingComputed

ComputeBalanceHistory ==
    /\ ~history.set
    /\ history' = Done(compute_balance_history(accounts.val, transactions,
                                               months, today))
    /\ UNCHANGED <<inputs, filtered, extracted, range, period, previous, cashflow,
                 spending, recurring, merchants,
                   customers, suggestions, transfer_ids, extracted_key,
                   parsed>>

NextHistory == ComputeBalanceHistory

SpecHistory == InitHistory /\ [][NextHistory]_vars

-----------------------------------------------------------------------------
(* Inputs of the spending report *)

\* the part of the call that the report does not read
NoClassifierArguments ==
    /\ today = Epoch
    /\ transfer_category_ids = {}
    /\ accounts = None
    /\ active_groups = None
    /\ months = 0
    /\ granularity = "monthly"

\* transactions that differ in category name and amount only
NamedTxLists(names, amounts, n) ==
    {[i \in DOMAIN fs |->
         Transaction(i, Epoch, fs[i].amount, EmptyStr, NoCategory,
                     fs[i].category_name)] :
        fs \in SeqsUpTo([category_name : names, amount : amounts], n)}

\* the current period against an optional prior period, no category list
InitSpending ==
    /\ NoClassifierArguments
    /\ transactions
           \in NamedTxLists({NoName, "", "Food", "Rent"}, {-200, 100, 200},
                            MaxSpendingTx)
    /\ categories = <<>>
    /\ compare_transactions
           \in {None} \cup {Some(l) : l \in NamedTxLists({NoName, "Food"},
                                                         {-300, 0},
                                                         MaxCompareTx)}
    /\ min_occurrences = 3
    /\ limit = 20
    /\ type_filter = None
    /\ NoRuleArguments
    /\ NothingComputed

\* compute_spending(transactions, categories, compare_transactions)
ComputeSpending ==
    /\ ~spending.set
    /\ spending' = Done(compute_spending(transactions, categories,
                                         compare_transactions))
    /\ UNCHANGED <<inputs, filtered, extracted, range, period, previous,
                   cashflow, history, recurring, merchants,
                   customers, suggestions, transfer_ids, extracted_key,
                   parsed>>

NextSpending == ComputeSpending

SpecSpending == InitSpending /\ [][NextSpending]_vars

\* budgets: absent, zero, negative, and two positive ones
Budgets == {None, Some(0), Some(-300), Some(300), Some(8000)}

\* the categories that can carry id
BudgetCategoryOf(id) ==
    {Category(id, "Food", g, b) : g \in BOOLEAN, b \in Budgets}

\* category lists with unique ids, in both orders
BudgetCategoryLists ==
    {<<>>}
    \cup {<<c>> : c \in BudgetCategoryOf("c1") \cup BudgetCategoryOf("c2")}
    \cup {<<c, d>> : c \in BudgetCategoryOf("c1"), d \in BudgetCategoryOf("c2")}
    \cup {<<d, c>> : c \in BudgetCategoryOf("c1"), d \in BudgetCategoryOf("c2")}

\* transactions that differ in category id, category name and amount
BudgetTxLists ==
    {[i \in DOMAIN fs |->
         Transaction(i, Epoch, fs[i].amount, EmptyStr, fs[i].category_id,
                     fs[i].category_name)] :
        fs \in SeqsUpTo([category_id : {NoCategory, "c1", "c2"},
                         category_name : {NoName, "Food"},
                         amount : {-200, 100}], MaxTx)}

\* the current period against a category list with budgets, no comparison
InitBudget ==
    /\ NoClassifierArguments
    /\ transactions \in BudgetTxLists
    /\ categories \in BudgetCategoryLists
    /\ compare_transactions = None
    /\ min_occurrences = 3
    /\ limit = 20
    /\ type_filter = None
    /\ NoRuleArguments
    /\ NothingComputed

SpecBudget == InitBudget /\ [][NextSpending]_vars

-----------------------------------------------------------------------------
(* Inputs of the recurring-payment detector *)

\* a payee name, the amount the payee charges and the days (after the
\* epoch) on which it books; the first two are one merchant written in two
\* ways, whose bookings lie 0, 1, 45, 46, 120, 121 or 166 days apart
Payees ==
    {[name |-> <<"G", "y", "m">>, amount |-> -1000, days |-> {0, 45, 46, 166}],
     [name |-> <<"G", "Y", "M", "/", "U", "l", "m">>, amount |-> -1001,
      days |-> {46, 166}],
     [name |-> <<"S", "p", "a", "r">>, amount |-> -500, days |-> {0, 45}]}

\* the bookings a list is drawn from
Bookings ==
    UNION {{[name |-> p.name, amount |-> p.amount,
             booking_date |-> FromOrdinal(ToOrdinal(Epoch) + k)] :
                k \in p.days} : p \in Payees}

RecurringTxLists ==
    {[i \in DOMAIN fs |->
         Transaction(i, fs[i].booking_date, fs[i].amount, fs[i].name,
                     NoCategory, NoName)] :
        fs \in SeqsUpTo(Bookings, MaxRecurringTx)}

InitRecurring ==
    /\ NoClassifierArguments
    /\ transactions \in RecurringTxLists
    /\ categories = <<>>
    /\ compare_transactions = None
    /\ min_occurrences \in {2, 3}
    /\ limit = 20
    /\ type_filter = None
    /\ NoRuleArguments
    /\ NothingComputed

\* detect_recurring(transactions, min_occurrences)
\* detect_recurring with the sort by booking date done on the argument list
DetectRecurringSortingInput ==
    /\ ~recurring.set
    /\ recurring' = Done(detect_recurring(transactions, min_occurrences))
    /\ transactions' = by_booking_date(transactions)
    /\ UNCHANGED <<today, transfer_category_ids, accounts, active_groups,
                   months, granularity, categories, compare_transactions,
                   min_occurrences, limit, type_filter, categorized,
                   payee_name, category_items>>
    /\ UNCHANGED <<filtered, extracted, range, period, previous,
                   cashflow, history, spending, merchants,
                   customers, suggestions, transfer_ids, extracted_key,
                   parsed>>

\* detect_recurring(transactions, min_occurrences)
DetectRecurring ==
    /\ ~recurring.set
    /\ recurring' = Done(detect_recurring(transactions, min_occurrences))
    /\ UNCHANGED <<inputs, filtered, extracted, range, period, previous,
                   cashflow, history, spending, merchants,
                   customers, suggestions, transfer_ids, extracted_key,
                   parsed>>

NextRecurring == DetectRecurring

SpecRecurring == InitRecurring /\ [][NextRecurring]_vars

-----------------------------------------------------------------------------
(* Inputs of the merchant summary *)

\* a payee name with the amounts it books and the days (after the epoch) on
\* which it books; the first two are one merchant written in two ways
MerchantPayees ==
    {[name |-> <<"G", "y", "m">>, amounts |-> {-1000, 500}, days |-> {0, 1}],
     [name |-> <<"G", "Y", "M", "/", "U", "l", "m">>, amounts |-> {-1000, 0},
      days |-> {1}],
     [name |-> <<"S", "p", "a", "r">>, amounts |-> {-500, 500}, days |-> {0}]}

MerchantBookings ==
    UNION {{[name |-> p.name, amount |-> a,
             booking_date |-> FromOrdinal(ToOrdinal(Epoch) + k)] :
                a \in p.amounts, k \in p.days} : p \in MerchantPayees}

MerchantTxLists ==
    {[i \in DOMAIN fs |->
         Transaction(i, fs[i].booking_date, fs[i].amount, fs[i].name,
                     NoCategory, NoName)] :
        fs \in SeqsUpTo(MerchantBookings, MaxMerchantTx)}

InitMerchants ==
    /\ NoClassifierArguments
    /\ transactions \in MerchantTxLists
    /\ categories = <<>>
    /\ compare_transactions = None
    /\ min_occurrences = 3
    /\ limit \in {0, 1, 2}
    /\ type_filter \in {None, Some("income"), Some("expense")}
    /\ NoRuleArguments
    /\ NothingComputed

\* compute_merchant_summary(transactions, limit, type_filter)
ComputeMerchantSummary ==
    /\ ~merchants.set
    /\ merchants' = Done(compute_merchant_summary(transactions, limit,
                                                  type_filter))
    /\ UNCHANGED <<inputs, filtered, extracted, range, period, previous,
                   cashflow, history, spending, recurring,
                   customers, suggestions, transfer_ids, extracted_key,
                   parsed>>

NextMerchants == ComputeMerchantSummary

SpecMerchants == InitMerchants /\ [][NextMerchants]_vars

-----------------------------------------------------------------------------
(* Inputs of the top-customer report *)

\* two payees, the first written in two ways, with payments received, a
\* refund paid and a booking of zero; the amounts 0.01 and 19.99 make a share
\* of exactly 0.05 percent
CustomerPayees ==
    {[name |-> <<"G", "y", "m">>, amounts |-> {500, 0, -1000}],
     [name |-> <<"G", "Y", "M", "/", "U", "l", "m">>, amounts |-> {250}],
     [name |-> <<"S", "p", "a", "r">>, amounts |-> {250, 1, 1999}]}

CustomerBookings ==
    UNION {{[name |-> p.name, amount |-> a] : a \in p.amounts} :
              p \in CustomerPayees}

CustomerTxLists ==
    {[i \in DOMAIN fs |->
         Transaction(i, Epoch, fs[i].amount, fs[i].name, NoCategory, NoName)] :
        fs \in SeqsUpTo(CustomerBookings, MaxCustomerTx)}

InitCustomers ==
    /\ NoClassifierArguments
    /\ transactions \in CustomerTxLists
    /\ categories = <<>>
    /\ compare_transactions = None
    /\ min_occurrences = 3
    /\ limit \in {0, 1, 2}
    /\ type_filter = None
    /\ NoRuleArguments
    /\ NothingComputed

\* compute_top_customers(transactions, limit)
ComputeTopCustomers ==
    /\ ~customers.set
    /\ customers' = Done(compute_top_customers(transactions, limit))
    /\ UNCHANGED <<inputs, filtered, extracted, range, period, previous,
                   cashflow, history, spending, recurring, merchants,
                   suggestions, transfer_ids, extracted_key, parsed>>

NextCustomers == ComputeTopCustomers

SpecCustomers == InitCustomers /\ [][NextCustomers]_vars

-----------------------------------------------------------------------------
(* Inputs of the rule suggestions *)

\* a category with rule text; rules is a sequence of characters
RuleCategory(id, name, path, rules) ==
    [id |-> id, name |-> name, group |-> FALSE, budget |-> None,
     budget_period |-> "", path |-> path, category_type |-> "expense",
     rules |-> rules]

\* payees without a category: one written in two ways, one whose key shares
\* its first 8 characters with a categorized payee, one never categorized
UncategorizedBookings ==
    {[name |-> <<"R", "e", "w", "e">>, amount |-> -100],
     [name |-> <<"R", "E", "W", "E", "/", "U", "l", "m">>, amount |-> -100],
     [name |-> <<"N", "e", "t", "f", "l", "i", "x", ".", "d", "e">>,
      amount |-> -100],
     [name |-> <<"K", "i", "o", "s", "k">>, amount |-> -200]}

\* payees with a category, one of them found in two categories
CategorizedBookings ==
    {[name |-> <<"R", "E", "W", "E">>, category_id |-> "c1",
      category_name |-> "Food"],
     [name |-> <<"R", "E", "W", "E">>, category_id |-> "c2",
      category_name |-> "Fun"],
     [name |-> <<"N", "e", "t", "f", "l", "i", "x", ".", "c", "o", "m">>,
      category_id |-> "c2", category_name |-> "Fun"]}

\* uncategorized = [tx for tx in target_txs if not tx.category_name]
UncategorizedTxLists ==
    {[i \in DOMAIN fs |->
         Transaction(i, Epoch, fs[i].amount, fs[i].name, NoCategory, NoName)] :
        fs \in SeqsUpTo(UncategorizedBookings, MaxUncategorized)}

\* categorized = [tx for tx in all_txs if tx.category_name]
CategorizedTxLists ==
    {[i \in DOMAIN fs |->
         Transaction(i, Epoch, -100, fs[i].name, fs[i].category_id,
                     fs[i].category_name)] :
        fs \in SeqsUpTo(CategorizedBookings, MaxCategorized)}

\* no category, or the category c1 with a rule on the first payee
RuleCategoryLists ==
    {<<>>, <<RuleCategory("c1", "Food", "Essen\\Food", <<"r", "e", "w", "e">>)>>}

InitRules ==
    /\ NoClassifierArguments
    /\ transactions \in UncategorizedTxLists
    /\ categorized \in CategorizedTxLists
    /\ categories \in RuleCategoryLists
    /\ compare_transactions = None
    /\ min_occurrences = 3
    /\ limit = 20
    /\ type_filter = None
    /\ payee_name = EmptyStr
    /\ category_items = <<>>
    /\ NothingComputed

\* suggest_rules(uncategorized, categorized, cats)
SuggestRules ==
    /\ ~suggestions.set
    /\ suggestions' = Done(suggest_rules(transactions, categorized, categories))
    /\ UNCHANGED <<inputs, filtered, extracted, range, period, previous,
                   cashflow, history, spending, recurring, merchants,
                   customers, transfer_ids, extracted_key, parsed>>

NextRules == SuggestRules

SpecRules == InitRules /\ [][NextRules]_vars

-----------------------------------------------------------------------------
(* Inputs of the transfer categories *)

\* a category with a path that is a sequence of characters
PathCategory(id, path) ==
    [id |-> id, name |-> "", group |-> FALSE, budget |-> None,
     budget_period |-> "", path |-> path, category_type |-> "expense",
     rules |-> EmptyStr]

\* the root group, a category below it, a top-level name that goes on after
\* the label, the label cut short, in lower case and below another group,
\* and no path
CategoryPaths ==
    {TRANSFER_CATEGORY_ROOT,
     TRANSFER_CATEGORY_ROOT \o <<"\\", "E">>,
     TRANSFER_CATEGORY_ROOT \o <<"2">>,
     SubSeq(TRANSFER_CATEGORY_ROOT, 1, 9),
     Lower(TRANSFER_CATEGORY_ROOT),
     <<"A", "\\">> \o TRANSFER_CATEGORY_ROOT,
     EmptyStr}

CategoryIds == <<"c1", "c2", "c3", "c4">>

\* category lists with unique ids
PathCategoryLists ==
    {[i \in DOMAIN ps |-> PathCategory(CategoryIds[i], ps[i])] :
        ps \in SeqsUpTo(CategoryPaths, MaxCategories)}

InitTransferIds ==
    /\ NoClassifierArguments
    /\ transactions = <<>>
    /\ categories \in PathCategoryLists
    /\ compare_transactions = None
    /\ min_occurrences = 3
    /\ limit = 20
    /\ type_filter = None
    /\ NoRuleArguments
    /\ NothingComputed

\* get_transfer_category_ids(categories)
GetTransferCategoryIds ==
    /\ ~transfer_ids.set
    /\ transfer_ids' = Done(get_transfer_category_ids(categories))
    /\ UNCHANGED <<inputs, filtered, extracted, range, period, previous,
                   cashflow, history, spending, recurring, merchants,
                   customers, suggestions, extracted_key, parsed>>

NextTransferIds == GetTransferCategoryIds

SpecTransferIds == InitTransferIds /\ [][NextTransferIds]_vars

-----------------------------------------------------------------------------
(* One invocation that calls every operation on the same snapshots *)

\* bookings of one payee written in two ways and of a second one, with and
\* without a category, in and before the window of two months
EngineBookings ==
    {[name |-> <<"G", "y", "m">>, booking_date |-> Date(2024, 2, 10),
      amount |-> -1000, category_id |-> NoCategory, category_name |-> NoName],
     [name |-> <<"G", "y", "m">>, booking_date |-> Date(2024, 1, 10),
      amount |-> -1000, category_id |-> "c1", category_name |-> "Food"],
     [name |-> <<"G", "Y", "M", "/", "U", "l", "m">>,
      booking_date |-> Date(2024, 3, 1),
      amount |-> -1000, category_id |-> NoCategory, category_name |-> NoName],
     [name |-> <<"S", "p", "a", "r">>, booking_date |-> Date(2024, 1, 10),
      amount |-> 500, category_id |-> "c1", category_name |-> "Food"]}

EngineTxLists ==
    {[i \in DOMAIN fs |->
         Transaction(i, fs[i].booking_date, fs[i].amount, fs[i].name,
                     fs[i].category_id, fs[i].category_name)] :
        fs \in SeqsUpTo(EngineBookings, MaxEngineTx)}

InitEngine ==
    /\ today = Date(2024, 3, 1)
    /\ transactions \in EngineTxLists
    /\ transfer_category_ids = {"c1"}
    /\ accounts = Some(<<Account("a1", <<"", "a1">>, <<"P", "r">>, 100000)>>)
    /\ active_groups = None
    /\ months = 2
    /\ granularity = "monthly"
    /\ categories = <<RuleCategory("c1", "Food", "Essen\\Food",
                                   <<"g", "y", "m">>)>>
    /\ compare_transactions = None
    /\ min_occurrences = 2
    /\ limit = 1
    /\ type_filter = None
    /\ categorized = <<Transaction(1, Epoch, -1000, <<"G", "y", "m">>,
                                   "c1", "Food")>>
    /\ payee_name = EmptyStr
    /\ category_items = <<>>
    /\ NothingComputed

\* the operations are independent of each other and run in any order
NextEngine ==
    \/ FilterTransfers
    \/ ExtractTransfers
    \/ ComputeSpending
    \/ ComputeCashflow
    \/ DetectRecurring
    \/ ComputeMerchantSummary
    \/ ComputeTopCustomers
    \/ ComputeBalanceHistory
    \/ SuggestRules

SpecEngine == InitEngine /\ [][NextEngine]_vars

-----------------------------------------------------------------------------
(* Inputs of the merchant keyer *)

\* what payee names are spelled from: the aggregator's name bare and with a
\* colon, a blank, a merchant behind the envelope marker, the location
\* separator, two words, a transaction code and a country stopword
NamePieces ==
    {<<"P", "a", "y", "P", "a", "l">>,
     <<"P", "a", "y", "P", "a", "l", ":">>,
     <<" ">>,
     <<"*", "G", "y", "m">>,
     <<"/">>,
     <<"G", "y", "m">>,
     <<"U", "l", "m">>,
     <<"a", "1", "b", "2", "c">>,
     <<"l", "u", "x">>}

RECURSIVE Spelled(_)
\* the pieces written one after the other
Spelled(pieces) ==
    IF pieces = <<>> THEN EmptyStr
    ELSE Head(pieces) \o Spelled(Tail(pieces))

PayeeNames == {Spelled(pieces) : pieces \in SeqsUpTo(NamePieces, MaxNameParts)}

InitKey ==
    /\ NoClassifierArguments
    /\ transactions = <<>>
    /\ categories = <<>>
    /\ compare_transactions = None
    /\ min_occurrences = 3
    /\ limit = 20
    /\ type_filter = None
    /\ categorized = <<>>
    /\ payee_name \in PayeeNames
    /\ category_items = <<>>
    /\ NothingComputed

\* merchant_key = _extract_merchant_key(tx.name)
ExtractMerchantKey ==
    /\ ~extracted_key.set
    /\ extracted_key' = Done(_extract_merchant_key(payee_name))
    /\ UNCHANGED inputs
    /\ UNCHANGED <<filtered, extracted, range, period, previous,
                   cashflow, history, spending, recurring, merchants,
                   customers, suggestions, transfer_ids, parsed>>

NextKey == ExtractMerchantKey

SpecKey == InitKey /\ [][NextKey]_vars

-----------------------------------------------------------------------------
(* Category hierarchy: applescript._parse_category_list *)

RECURSIVE joined_path(_)
\* "\\".join(path_parts)
joined_path(path_parts) ==
    IF path_parts = <<>> THEN EmptyStr
    ELSE IF Len(path_parts) = 1 THEN path_parts[1]
    ELSE path_parts[1] \o <<"\\">> \o joined_path(Tail(path_parts))

\* the parent stack cut one level too deep
trimmed_below(parent_stack, indentation) ==
    IF indentation + 1 < Len(parent_stack)
    THEN SubSeq(parent_stack, 1, indentation + 1)
    ELSE parent_stack

\* parent_stack[:indentation]
trimmed(parent_stack, indentation) ==
    IF indentation < Len(parent_stack)
    THEN SubSeq(parent_stack, 1, indentation)
    ELSE parent_stack

\* the Category built from one item; the fields copied from the item without
\* a look at the stack (type, icon, budget, group, rules) are left out
parsed_category(item, stack) ==
    [id          |-> item.uuid,
     name        |-> item.name,
     parent_id   |-> IF stack # <<>> THEN Some(stack[Len(stack)].id) ELSE None,
     parent_name |-> IF stack # <<>> THEN Some(stack[Len(stack)].name)
                     ELSE None,
     indentation |-> item.indentation,
     path        |-> joined_path([k \in DOMAIN stack |-> stack[k].name]
                                 \o <<item.name>>)]

RECURSIVE parse_from(_, _, _)
\* the loop of _parse_category_list from item i on
parse_from(list, i, parent_stack) ==
    IF i > Len(list) THEN <<>>
    ELSE LET stack == trimmed(parent_stack, list[i].indentation)
         IN  <<parsed_category(list[i], stack)>>
             \o parse_from(list, i + 1,
                           stack \o <<[id |-> list[i].uuid,
                                       name |-> list[i].name]>>)

\* _parse_category_list(items, result), for an empty result
_parse_category_list(list) == parse_from(list, 1, <<>>)

-----------------------------------------------------------------------------
(* Inputs of the category list parser *)

\* depths of a tree written down parent first: the first item is a root and
\* no item lies more than one level below the item in front of it
IsPreOrder(depths) ==
    /\ depths # <<>> => depths[1] = 0
    /\ \A i \in 2..Len(depths) : depths[i] <= depths[i - 1] + 1

\* two names, so that categories of different branches share a name
CategoryNames == {<<"A">>, <<"B", "c">>}

CategoryItemLists ==
    {[i \in DOMAIN ns |->
         [uuid |-> i, name |-> ns[i], indentation |-> ds[i]]] :
        <<ns, ds>> \in
            {pair \in SeqsUpTo(CategoryNames, MaxCategoryItems)
                      \X SeqsUpTo(0..(MaxCategoryItems - 1), MaxCategoryItems) :
                /\ Len(pair[1]) = Len(pair[2])
                /\ IsPreOrder(pair[2])}}

InitParser ==
    /\ NoClassifierArguments
    /\ transactions = <<>>
    /\ categories = <<>>
    /\ compare_transactions = None
    /\ min_occurrences = 3
    /\ limit = 20
    /\ type_filter = None
    /\ categorized = <<>>
    /\ payee_name = EmptyStr
    /\ category_items \in CategoryItemLists
    /\ NothingComputed

\* _parse_category_list(items, categories)
ParseCategoryList ==
    /\ ~parsed.set
    /\ parsed' = Done(_parse_category_list(category_items))
    /\ UNCHANGED inputs
    /\ UNCHANGED <<filtered, extracted, range, period, previous,
                   cashflow, history, spending, recurring, merchants,
                   customers, suggestions, transfer_ids, extracted_key>>

NextParser == ParseCategoryList

SpecParser == InitParser /\ [][NextParser]_vars

-----------------------------------------------------------------------------
(* Properties of the transfer classifier *)

\* the transaction with id i is in the returned list res
Returned(res, i) == \E k \in DOMAIN res : res[k].id = i

\* how often the transaction with id i is in the returned list res
Occurrences(res, i) == Cardinality({k \in DOMAIN res : res[k].id = i})

\* every element of res is the input transaction of that id
FromInput(res) ==
    \A k \in DOMAIN res :
        /\ res[k].id \in DOMAIN transactions
        /\ res[k] = transactions[res[k].id]

\* res lists its transactions in input order, none twice
InInputOrder(res) ==
    \A k, l \in DOMAIN res : k < l => res[k].id < res[l].id

\* an active-group filter is in force
ActiveFilter == active_groups.some /\ active_groups.val # <<>>

\* the own accounts that tx names as its counterparty
CounterpartyAccounts(tx) ==
    IF accounts.some
    THEN {i \in DOMAIN accounts.val :
             /\ tx.counterparty_iban # ""
             /\ \/ accounts.val[i].iban = tx.counterparty_iban
                \/ accounts.val[i].account_number = tx.counterparty_iban}
    ELSE {}

\* the accounts that tx was booked on
BookedAccounts(tx) ==
    IF accounts.some
    THEN {i \in DOMAIN accounts.val : accounts.val[i].id = tx.account_id}
    ELSE {}

\* tx moves money between two own accounts, each identified by the snapshot
IsOwnTransfer(tx) ==
    /\ Cardinality(CounterpartyAccounts(tx)) = 1
    /\ Cardinality(BookedAccounts(tx)) = 1

\* the group labels of both sides of an own transfer are equal up to case
SameGroup(tx) ==
    \A o \in BookedAccounts(tx), c \in CounterpartyAccounts(tx) :
        Lower(accounts.val[o].group) = Lower(accounts.val[c].group)

\* C1: filter_transfers and extract_transfers, called with no active-group
\* filter on the same arguments, partition the input: every input transaction
\* is returned by exactly one of the two, and neither returns anything that
\* is not in the input.
C1_FilterExtractPartition ==
    (filtered.set /\ extracted.set /\ ~ActiveFilter) =>
        /\ \A i \in DOMAIN transactions :
               Occurrences(filtered.val, i) + Occurrences(extracted.val, i) = 1
        /\ FromInput(filtered.val)
        /\ FromInput(extracted.val)

\* both functions ran without a group filter on a list that holds an own-account
\* movement without transfer category and an external payment
C1_Witness ==
    /\ filtered.set /\ extracted.set /\ ~ActiveFilter
    /\ Len(filtered.val) = 1 /\ Len(extracted.val) = 1
    /\ \E i \in DOMAIN transactions :
           /\ CounterpartyAccounts(transactions[i]) # {}
           /\ transactions[i].category_id \notin transfer_category_ids
           /\ Returned(extracted.val, i)

\* C2: with account data, a transaction whose counterparty IBAN is the IBAN or
\* account number of an own account is kept by filter_transfers iff a
\* non-empty active-group list is given and the groups of the two accounts
\* differ, compared case-insensitively; otherwise it is dropped.
C2_CrossGroupKept ==
    filtered.set =>
        \A i \in DOMAIN transactions :
            IsOwnTransfer(transactions[i]) =>
                (Returned(filtered.val, i)
                     <=> (ActiveFilter /\ ~SameGroup(transactions[i])))

\* an own transfer between groups that differ only in letter case was dropped
\* under an active-group filter, and a cross-group one was kept
C2_Witness ==
    /\ filtered.set /\ ActiveFilter
    /\ \E i \in DOMAIN transactions :
           /\ IsOwnTransfer(transactions[i])
           /\ SameGroup(transactions[i])
           /\ \E o \in BookedAccounts(transactions[i]),
                 c \in CounterpartyAccounts(transactions[i]) :
                  accounts.val[o].group # accounts.val[c].group
           /\ ~Returned(filtered.val, i)

\* C3: IBAN detection has priority over category detection: two transactions
\* with an own-account counterparty that differ only in their category get the
\* same outcome from filter_transfers, and a cross-group own transfer that
\* carries a transfer category is kept under an active-group filter.
C3_IbanPriority ==
    filtered.set =>
        /\ \A i, j \in DOMAIN transactions :
               (/\ CounterpartyAccounts(transactions[i]) # {}
                /\ transactions[i].counterparty_iban = transactions[j].counterparty_iban
                /\ transactions[i].account_id = transactions[j].account_id)
               => (Returned(filtered.val, i) <=> Returned(filtered.val, j))
        /\ \A i \in DOMAIN transactions :
               (/\ IsOwnTransfer(transactions[i])
                /\ ActiveFilter
                /\ ~SameGroup(transactions[i])
                /\ transactions[i].category_id \in transfer_category_ids)
               => Returned(filtered.val, i)

\* a cross-group own transfer with a transfer category and its twin without
\* one were both kept
C3_Witness ==
    /\ filtered.set /\ ActiveFilter
    /\ \E i, j \in DOMAIN transactions :
           /\ IsOwnTransfer(transactions[i])
           /\ ~SameGroup(transactions[i])
           /\ transactions[i].counterparty_iban = transactions[j].counterparty_iban
           /\ transactions[i].account_id = transactions[j].account_id
           /\ transactions[i].category_id \in transfer_category_ids
           /\ transactions[j].category_id \notin transfer_category_ids
           /\ Returned(filtered.val, i)
           /\ Returned(filtered.val, j)

\* C4: when IBAN detection does not apply to a transaction (no account list,
\* empty counterparty IBAN, or a counterparty IBAN that matches no own
\* account), filter_transfers keeps it iff its category id is not a transfer
\* category, whatever the active-group filter is.
C4_CategoryFallback ==
    filtered.set =>
        \A i \in DOMAIN transactions :
            CounterpartyAccounts(transactions[i]) = {} =>
                (Returned(filtered.val, i)
                     <=> transactions[i].category_id \notin transfer_category_ids)

\* with account data and an active-group filter, a payment to a foreign IBAN
\* in a transfer category was dropped and one without category was kept
C4_Witness ==
    /\ filtered.set /\ ActiveFilter /\ accounts.some
    /\ \E i, j \in DOMAIN transactions :
           /\ CounterpartyAccounts(transactions[i]) = {}
           /\ transactions[i].counterparty_iban # ""
           /\ transactions[i].category_id \in transfer_category_ids
           /\ ~Returned(filtered.val, i)
           /\ CounterpartyAccounts(transactions[j]) = {}
           /\ transactions[j].category_id = NoCategory
           /\ Returned(filtered.val, j)

\* C5: extract_transfers returns exactly the input transactions that are
\* own-account movements or carry a transfer category, in input order, with
\* no cross-group exception.
C5_ExtractExact ==
    extracted.set =>
        /\ \A i \in DOMAIN transactions :
               Returned(extracted.val, i)
                   <=> \/ CounterpartyAccounts(transactions[i]) # {}
                       \/ transactions[i].category_id \in transfer_category_ids
        /\ FromInput(extracted.val)
        /\ InInputOrder(extracted.val)

\* a cross-group own transfer was extracted ahead of a category transfer, and
\* an external payment was left out
C5_Witness ==
    /\ extracted.set
    /\ Len(transactions) = 2 /\ Len(extracted.val) = 1
    /\ IsOwnTransfer(transactions[2])
    /\ ~SameGroup(transactions[2])
    /\ transactions[2].category_id \notin transfer_category_ids
    /\ extracted.val[1].id = 2

-----------------------------------------------------------------------------
(* Properties of the period resolver *)

\* d is a day of the calendar
IsCalendarDay(d) ==
    /\ d.month \in 1..12
    /\ d.day \in 1..DaysInMonth(d.year, d.month)

\* the calendar month before month m of year y
MonthBefore(y, m) ==
    IF m = 1 THEN [year |-> y - 1, month |-> 12] ELSE [year |-> y, month |-> m - 1]

FirstDayOf(ym) == Date(ym.year, ym.month, 1)

LastDayOf(ym) == Date(ym.year, ym.month, DaysInMonth(ym.year, ym.month))

\* get_previous_period takes [start, end] for a monthly period
LooksMonthly(r) ==
    /\ r.start.day = 1
    /\ DaysBetween(r.end, r.start) \in 27..31

\* C8: for a start on the first of a month and a span of 27..31 days,
\* get_previous_period returns the previous full calendar month, which is
\* December of the previous year when start is in January.
C8_PreviousMonth ==
    (previous.set /\ LooksMonthly(range.val)) =>
        LET pm == MonthBefore(range.val.start.year, range.val.start.month)
        IN  /\ previous.val.start = FirstDayOf(pm)
            /\ previous.val.end = LastDayOf(pm)

\* the month before a January range was computed
C8_Witness ==
    /\ previous.set
    /\ LooksMonthly(range.val)
    /\ range.val.start.month = 1
    /\ previous.val.start.month = 12
    /\ previous.val.start.year = range.val.start.year - 1

\* C9: an interval that is not detected as monthly is shifted back by its
\* exact day count: prev_end is the day before start and
\* prev_end - prev_start equals end - start.
C9_GenericShift ==
    (previous.set /\ ~LooksMonthly(range.val)) =>
        /\ IsCalendarDay(previous.val.start)
        /\ IsCalendarDay(previous.val.end)
        /\ ToOrdinal(previous.val.end) = ToOrdinal(range.val.start) - 1
        /\ DaysBetween(previous.val.end, previous.val.start)
               = DaysBetween(range.val.end, range.val.start)

\* a 30-day range that starts in mid-month was shifted across a year boundary
C9_Witness ==
    /\ previous.set
    /\ range.val.start.day = 15
    /\ range.val.start.month = 1
    /\ DaysBetween(range.val.end, range.val.start) = 29
    /\ previous.val.start.year = range.val.start.year - 1

\* C10: resolve_period("this-month") returns the first and the last calendar
\* day of today's month, resolve_period("last-month") those of the month
\* before it (December of the previous year in January).
C10_MonthPeriods ==
    period.set =>
        /\ period.val.name = "this-month" =>
               /\ period.val.result.ok
               /\ period.val.result.start = FirstDayOf(today)
               /\ period.val.result.end = LastDayOf(today)
        /\ period.val.name = "last-month" =>
               /\ period.val.result.ok
               /\ period.val.result.start
                      = FirstDayOf(MonthBefore(today.year, today.month))
               /\ period.val.result.end
                      = LastDayOf(MonthBefore(today.year, today.month))

\* this-month was resolved on a leap day
C10_Witness ==
    /\ period.set
    /\ period.val.name = "this-month"
    /\ today = Date(2024, 2, 29)
    /\ period.val.result.end = today

\* the fixed three-month block q (1..4) of year y, with its label
QuarterBlock(y, q) ==
    [start |-> Date(y, 3 * q - 2, 1),
     end   |-> Date(y, 3 * q, DaysInMonth(y, 3 * q)),
     label |-> <<"Q", q, y>>]

\* the quarter that contains day d
QuarterOf(d) == IF d.month <= 3 THEN 1
                ELSE IF d.month <= 6 THEN 2
                ELSE IF d.month <= 9 THEN 3
                ELSE 4

\* the block right before block q of year y
QuarterBefore(y, q) == IF q = 1 THEN QuarterBlock(y - 1, 4)
                       ELSE QuarterBlock(y, q - 1)

\* the start, end and label of a resolved period
Resolved(r) == [start |-> r.start, end |-> r.end, label |-> r.label]

\* C11: resolve_period("this-quarter") returns the fixed three-month block
\* (starting in month 1, 4, 7 or 10) that contains today, labelled
\* Q<n> <year>; resolve_period("last-quarter") returns the block right before
\* it, which is 1 October to 31 December of the previous year, labelled Q4,
\* when today lies in the first quarter.
C11_QuarterPeriods ==
    period.set =>
        /\ period.val.name = "this-quarter" =>
               /\ period.val.result.ok
               /\ Resolved(period.val.result)
                      = QuarterBlock(today.year, QuarterOf(today))
        /\ period.val.name = "last-quarter" =>
               /\ period.val.result.ok
               /\ Resolved(period.val.result)
                      = QuarterBefore(today.year, QuarterOf(today))

\* last-quarter was resolved on a day of a first quarter
C11_Witness ==
    /\ period.set
    /\ period.val.name = "last-quarter"
    /\ today = Date(2024, 2, 29)
    /\ period.val.result.start = Date(2023, 10, 1)
    /\ period.val.result.end = Date(2023, 12, 31)
    /\ period.val.result.label = <<"Q", 4, 2023>>

\* the five period keywords
ValidPeriodNames ==
    {"this-month", "last-month", "this-quarter", "last-quarter", "this-year"}

\* C12: a keyword outside the five valid ones makes resolve_period fail with
\* a ValueError that names the offending value and the valid keywords, and
\* no period is returned; each of the five valid keywords returns a period.
C12_UnknownKeyword ==
    period.set =>
        /\ period.val.name \in ValidPeriodNames =>
               /\ period.val.result.ok
               /\ DOMAIN period.val.result = {"ok", "start", "end", "label"}
        /\ period.val.name \notin ValidPeriodNames =>
               /\ ~period.val.result.ok
               /\ DOMAIN period.val.result = {"ok", "error", "value", "valid"}
               /\ period.val.result.error = "ValueError"
               /\ period.val.result.value = period.val.name
               /\ {period.val.result.valid[i] :
                       i \in DOMAIN period.val.result.valid} = ValidPeriodNames

\* an unknown keyword was passed and refused
C12_Witness ==
    /\ period.set
    /\ period.val.name = "next-month"
    /\ ~period.val.result.ok
    /\ period.val.result.value = "next-month"

-----------------------------------------------------------------------------
(* Properties of the aggregators *)

\* the label compute_cashflow gives the bucket of the transaction at position i
BucketOf(i) ==
    IF granularity = "quarterly"
    THEN _quarter_label(transactions[i].booking_date)
    ELSE _month_label(transactions[i].booking_date)

\* the transaction_count reported for label l, 0 when no record has that label
CountedIn(res, l) ==
    IF \E k \in DOMAIN res : res[k].period_label = l
    THEN (CHOOSE r \in {res[k] : k \in DOMAIN res} : r.period_label = l).transaction_count
    ELSE 0

\* the first day of the trailing window of n months that ends with t's month
WindowStart(t, n) == MonthsBefore(t, n - 1)

\* C7: compute_cashflow(transactions, months=N) counts a transaction iff its
\* booking date is on or after the first day of the calendar month that lies
\* N-1 months before the current month.
C7_TrailingWindow ==
    cashflow.set =>
        \A i \in DOMAIN transactions :
            CountedIn(cashflow.val, BucketOf(i))
                = Cardinality({j \in DOMAIN transactions :
                      /\ BucketOf(j) = BucketOf(i)
                      /\ ~DateLess(transactions[j].booking_date,
                                   WindowStart(today, months))})

\* the net transaction sum of the account with that id in the month of label l
NetSum(account_id, l) ==
    SumAmounts(transactions,
               {i \in DOMAIN transactions :
                   /\ transactions[i].account_id = account_id
                   /\ transactions[i].booking_date.year = l.year
                   /\ transactions[i].booking_date.month = l.n})

\* the k-th snapshot, in chronological order, of the a-th account
SnapshotOf(a, k) == history.val[(a - 1) * months + k]

\* C6: compute_balance_history walks backward from the current balance: the
\* newest snapshot carries the current balance, every earlier snapshot's
\* balance is the next more recent snapshot's balance minus that more recent
\* month's net transaction sum, and each snapshot's change is the net
\* transaction sum of its own month.
C6_BackwardWalk ==
    (history.set /\ Len(history.val) = months * Len(accounts.val)) =>
        \A a \in DOMAIN accounts.val :
            /\ SnapshotOf(a, months).balance = accounts.val[a].balance
            /\ \A k \in 1..(months - 1) :
                   SnapshotOf(a, k).balance
                       = SnapshotOf(a, k + 1).balance
                             - NetSum(accounts.val[a].id, SnapshotOf(a, k + 1).period_label)
            /\ \A k \in 1..months :
                   SnapshotOf(a, k).change
                       = NetSum(accounts.val[a].id, SnapshotOf(a, k).period_label)

-----------------------------------------------------------------------------
(* Properties of the spending report *)

\* the name a transaction is reported under
NameOf(tx) ==
    IF tx.category_name \in {NoName, ""} THEN "(Uncategorized)"
    ELSE tx.category_name

\* the positions of the input transactions reported under name
Under(name) == {i \in DOMAIN transactions : NameOf(transactions[i]) = name}

\* the signed total of the transactions of txs at the positions S
RECURSIVE Total(_, _)
Total(txs, S) ==
    IF S = {} THEN 0
    ELSE LET i == CHOOSE j \in S : TRUE
         IN  txs[i].amount + Total(txs, S \ {i})

\* the sum of field f over the records of res
RECURSIVE FieldSum(_, _)
FieldSum(res, f) ==
    IF res = <<>> THEN 0 ELSE res[1][f] + FieldSum(Tail(res), f)

\* t is a nearest tenth of a percent of n / d * 100, d > 0
NearestTenth(t, n, d) == 2 * Abs(t * d - 1000 * n) <= d

\* C13: compute_spending returns exactly one record per distinct resolved
\* category name of the input, "(Uncategorized)" standing for the
\* transactions without a category name; a record's actual is the signed sum
\* and its transaction_count the size of its group, so the counts add up to
\* the number of input transactions and the actuals to their total.
C13_OneRecordPerCategory ==
    spending.set =>
        LET res == spending.val
        IN  /\ \A i, j \in DOMAIN res :
                   res[i].category_name = res[j].category_name => i = j
            /\ {res[i].category_name : i \in DOMAIN res}
                   = {NameOf(transactions[i]) : i \in DOMAIN transactions}
            /\ \A i \in DOMAIN res :
                   /\ res[i].actual
                          = Total(transactions, Under(res[i].category_name))
                   /\ res[i].transaction_count
                          = Cardinality(Under(res[i].category_name))
            /\ FieldSum(res, "transaction_count") = Len(transactions)
            /\ FieldSum(res, "actual")
                   = Total(transactions, DOMAIN transactions)

\* a transaction without a name and one with an empty name were reported
\* together, next to a named category
C13_Witness ==
    /\ spending.set
    /\ Len(transactions) = 3
    /\ \E i, j \in DOMAIN transactions :
           /\ transactions[i].category_name = NoName
           /\ transactions[j].category_name = ""
    /\ \E i, j \in DOMAIN spending.val :
           /\ spending.val[i].category_name = "(Uncategorized)"
           /\ spending.val[i].transaction_count = 2
           /\ spending.val[i].actual = -100
           /\ spending.val[j].category_name = "Rent"

\* C14: when the category resolved for a record has a budget that is present
\* and positive, the record carries that budget, remaining = budget -
\* |actual| and percent_used = |actual| / budget * 100 rounded to one
\* decimal; otherwise budget, remaining and percent_used are all absent.
C14_BudgetFigures ==
    spending.set =>
        \A i \in DOMAIN spending.val :
            LET r   == spending.val[i]
                cat == current_cat(transactions, categories, r.category_name)
            IN  IF cat.some /\ cat.val.budget.some /\ cat.val.budget.val > 0
                THEN /\ r.budget = cat.val.budget
                     /\ r.remaining = Some(cat.val.budget.val - Abs(r.actual))
                     /\ r.percent_used.some
                     /\ NearestTenth(r.percent_used.val, Abs(r.actual),
                                     cat.val.budget.val)
                ELSE /\ r.budget = None
                     /\ r.remaining = None
                     /\ r.percent_used = None

\* an expense of 2.00 was reported against a budget of 3.00, next to a
\* record whose category has a budget of zero
C14_Witness ==
    /\ spending.set
    /\ \E i, j \in DOMAIN spending.val :
           /\ spending.val[i].actual = -200
           /\ spending.val[i].budget = Some(300)
           /\ spending.val[i].remaining = Some(100)
           /\ spending.val[i].percent_used = Some(667)
           /\ current_cat(transactions, categories,
                          spending.val[j].category_name).some
           /\ current_cat(transactions, categories,
                          spending.val[j].category_name).val.budget = Some(0)
           /\ spending.val[j].percent_used = None

\* the positions of the comparison transactions reported under name
PriorUnder(name) ==
    IF compare_transactions.some
    THEN {i \in DOMAIN compare_transactions.val :
              NameOf(compare_transactions.val[i]) = name}
    ELSE {}

\* the prior-period total of name
PriorTotal(name) == Total(compare_transactions.val, PriorUnder(name))

\* C15: compare_change of a record is (|actual| - |prior|) / |prior| * 100
\* rounded to one decimal when comparison transactions are supplied and the
\* same category name has a non-zero prior total; in every other case it is
\* absent.
C15_CompareChange ==
    spending.set =>
        \A i \in DOMAIN spending.val :
            LET r == spending.val[i]
            IN  IF /\ PriorUnder(r.category_name) # {}
                   /\ PriorTotal(r.category_name) # 0
                THEN /\ r.compare_change.some
                     /\ NearestTenth(r.compare_change.val,
                            Abs(r.actual) - Abs(PriorTotal(r.category_name)),
                            Abs(PriorTotal(r.category_name)))
                ELSE r.compare_change = None

\* a category fell from 3.00 to 1.00 and another one was new
C15_Witness ==
    /\ spending.set
    /\ \E i, k \in DOMAIN spending.val :
           /\ spending.val[i].actual = 100
           /\ PriorTotal(spending.val[i].category_name) = -300
           /\ spending.val[i].compare_change = Some(-667)
           /\ PriorUnder(spending.val[k].category_name) = {}
           /\ spending.val[k].compare_change = None

\* the position at which name is first met in the input
FirstMet(name) == CHOOSE i \in Under(name) : \A j \in Under(name) : i <= j

\* C16: the records are ordered by |actual|, largest first, and records with
\* equal |actual| keep the order in which their categories were first met in
\* the input.
C16_LargestFirst ==
    spending.set =>
        \A i, j \in DOMAIN spending.val :
            i < j =>
                /\ Abs(spending.val[i].actual) >= Abs(spending.val[j].actual)
                /\ Abs(spending.val[i].actual) = Abs(spending.val[j].actual)
                       => FirstMet(spending.val[i].category_name)
                              < FirstMet(spending.val[j].category_name)

\* the smallest category was met first and reported last, after two
\* categories of equal size in their input order
C16_Witness ==
    /\ spending.set
    /\ Len(spending.val) = 3
    /\ transactions[1].amount = 100
    /\ spending.val[1].actual = -200
    /\ spending.val[1].category_name = transactions[2].category_name
    /\ spending.val[2].actual = 200
    /\ spending.val[3].actual = 100

-----------------------------------------------------------------------------
(* Properties of the cashflow records *)

\* the transactions compute_cashflow does not skip
Counted ==
    {i \in DOMAIN transactions :
        ~DateLess(transactions[i].booking_date, cashflow_cutoff(today, months))}

\* the counted transactions of bucket l
InBucket(l) == {i \in Counted : BucketOf(i) = l}

\* C17: every record of compute_cashflow has income = the sum of the strictly
\* positive amounts of its bucket, expenses = the sum of the remaining (zero
\* or negative) amounts, never positive, transaction_count = the number of
\* transactions of the bucket and net = income + expenses; the records are in
\* ascending label order, one per non-empty bucket, and an empty input gives
\* an empty list.
C17_CashflowRecords ==
    cashflow.set =>
        LET res == cashflow.val
        IN  /\ {res[k].period_label : k \in DOMAIN res}
                   = {BucketOf(i) : i \in Counted}
            /\ \A k \in DOMAIN res :
                   k < Len(res)
                       => LabelLess(res[k].period_label, res[k + 1].period_label)
            /\ \A k \in DOMAIN res :
                   LET own == InBucket(res[k].period_label)
                   IN  /\ res[k].income
                              = Total(transactions,
                                      {i \in own : transactions[i].amount > 0})
                       /\ res[k].expenses
                              = Total(transactions,
                                      {i \in own : transactions[i].amount <= 0})
                       /\ res[k].expenses <= 0
                       /\ res[k].transaction_count = Cardinality(own)
                       /\ res[k].net = res[k].income + res[k].expenses
            /\ transactions = <<>> => res = <<>>

\* an expense booked in the current month came first in the input and is
\* reported last, after the month of an earlier income
C17_Witness ==
    /\ cashflow.set
    /\ granularity = "monthly"
    /\ Len(cashflow.val) = 2
    /\ transactions[1].amount = -500
    /\ cashflow.val[1].income = 700
    /\ cashflow.val[1].expenses = 0
    /\ cashflow.val[1].net = 700
    /\ cashflow.val[2].income = 0
    /\ cashflow.val[2].expenses = -500
    /\ cashflow.val[2].net = -500
    /\ cashflow.val[2].transaction_count = 1

-----------------------------------------------------------------------------
(* Properties of the recurring-payment detector *)

\* the merchant keys of the input transactions, by position
InputKeys ==
    Listed([i \in DOMAIN transactions |->
               _extract_merchant_key(transactions[i].name)])

\* the merchant keys of the records of res, by position
RecordKeys(res) ==
    Listed([k \in DOMAIN res |-> _extract_merchant_key(res[k].merchant_name)])

\* the positions at which the list keys holds key
Holding(keys, key) == {i \in DOMAIN keys : keys[i] = key}

\* the positions of the input transactions with the merchant key of name
SameMerchant(name) == Holding(InputKeys, _extract_merchant_key(name))

\* C18: detect_recurring returns at most one record per merchant key, never
\* a record for a merchant with fewer than min_occurrences transactions, and
\* a record's occurrence_count is the number of input transactions that have
\* its merchant key.
C18_RecurringGroups ==
    recurring.set =>
        LET res  == recurring.val
            keys == InputKeys
            rec  == RecordKeys(res)
        IN  /\ \A i, j \in DOMAIN res : rec[i] = rec[j] => i = j
            /\ \A i \in DOMAIN res :
                   /\ Holding(keys, rec[i]) # {}
                   /\ res[i].occurrence_count
                          = Cardinality(Holding(keys, rec[i]))
                   /\ res[i].occurrence_count >= min_occurrences

\* one merchant written in two ways was reported once with three
\* occurrences, and a merchant with two occurrences was left out
C18_Witness ==
    /\ recurring.set
    /\ min_occurrences = 3
    /\ Len(transactions) = 4
    /\ Len(recurring.val) = 1
    /\ recurring.val[1].occurrence_count = 3
    /\ \E i, j \in SameMerchant(recurring.val[1].merchant_name) :
           transactions[i].name # transactions[j].name
    /\ \E i \in DOMAIN transactions :
           i \notin SameMerchant(recurring.val[1].merchant_name)

\* the booking days (as ordinals) of the transactions at the positions S
BookingDays(S) == {ToOrdinal(transactions[i].booking_date) : i \in S}

\* the span between the first and the last of a set of days
DaySpan(days) ==
    (CHOOSE a \in days : \A b \in days : b <= a)
    - (CHOOSE a \in days : \A b \in days : a <= b)

\* the cadence of a merchant booked on these days: the gaps between
\* consecutive distinct days add up to the span, and there is one gap less
\* than there are distinct days
CadenceOf(days) ==
    LET gaps == Cardinality(days) - 1
    IN  IF DaySpan(days) <= 45 * gaps THEN "monthly"
        ELSE IF DaySpan(days) <= 120 * gaps THEN "quarterly"
        ELSE "annual"

TimesPerYear(cadence) ==
    CASE cadence = "monthly" -> 12
      [] cadence = "quarterly" -> 4
      [] cadence = "annual" -> 1

\* C19: for every merchant with at least min_occurrences transactions (and
\* at least one gap of more than zero days) detect_recurring reports the
\* cadence of the average gap between consecutive booking dates, zero-day
\* gaps left out: monthly up to 45 days, quarterly up to 120 days, annual
\* above; total_annual_cost is |avg_amount| times 12, 4 or 1; the records
\* are in descending order of total_annual_cost.
C19_Cadence ==
    recurring.set =>
        LET res  == recurring.val
            keys == InputKeys
            rec  == RecordKeys(res)
        IN  /\ \A i \in DOMAIN keys :
                   LET own == Holding(keys, keys[i])
                   IN  (/\ Cardinality(own) >= min_occurrences
                        /\ Cardinality(BookingDays(own)) > 1)
                       => \E k \in DOMAIN res : rec[k] = keys[i]
            /\ \A k \in DOMAIN res :
                   LET days == BookingDays(Holding(keys, rec[k]))
                   IN  /\ Cardinality(days) > 1
                       /\ res[k].frequency = CadenceOf(days)
                       /\ res[k].total_annual_cost
                              = Abs(res[k].avg_amount)
                                    * TimesPerYear(res[k].frequency)
            /\ \A k \in DOMAIN res :
                   k < Len(res) =>
                       res[k].total_annual_cost >= res[k + 1].total_annual_cost

\* a merchant that books every 46 days was met first and is reported after
\* a cheaper merchant that books every 45 days
C19_Witness ==
    /\ recurring.set
    /\ Len(recurring.val) = 2
    /\ recurring.val[1].frequency = "monthly"
    /\ recurring.val[1].avg_amount = -500
    /\ recurring.val[1].total_annual_cost = 6000
    /\ recurring.val[2].frequency = "quarterly"
    /\ recurring.val[2].total_annual_cost = 4000
    /\ DaySpan(BookingDays(SameMerchant(recurring.val[2].merchant_name))) = 46
    /\ 1 \in SameMerchant(recurring.val[2].merchant_name)

-----------------------------------------------------------------------------
(* Properties of the merchant summary *)

\* the positions of the input transactions that pass type_filter
Passing ==
    {i \in DOMAIN transactions :
        /\ type_filter = Some("income") => transactions[i].amount > 0
        /\ type_filter = Some("expense") => transactions[i].amount < 0}

\* |total| of the passing transactions at the positions S
Volume(S) == Abs(Total(transactions, S))

\* C20: after the pre-filter (income: amount > 0, expense: amount < 0)
\* compute_merchant_summary reports each merchant key at most once, with
\* transaction_count = the size of its group, total_amount = the signed sum,
\* first_date and last_date = the earliest and latest booking date; the
\* records are ordered by |total_amount|, largest first; with limit > 0 only
\* the first limit records are returned, otherwise one per merchant key.
C20_MerchantSummary ==
    merchants.set =>
        LET res    == merchants.val
            keys   == InputKeys
            rec    == RecordKeys(res)
            own(k) == Holding(keys, rec[k]) \cap Passing
            all    == {keys[i] : i \in Passing}
        IN  /\ \A i, j \in DOMAIN res : rec[i] = rec[j] => i = j
            /\ \A k \in DOMAIN res :
                   /\ own(k) # {}
                   /\ res[k].transaction_count = Cardinality(own(k))
                   /\ res[k].total_amount = Total(transactions, own(k))
                   /\ \E i \in own(k) :
                          res[k].first_date = transactions[i].booking_date
                   /\ \E i \in own(k) :
                          res[k].last_date = transactions[i].booking_date
                   /\ \A i \in own(k) :
                          /\ ~DateLess(transactions[i].booking_date,
                                       res[k].first_date)
                          /\ ~DateLess(res[k].last_date,
                                       transactions[i].booking_date)
            /\ \A k \in DOMAIN res :
                   k < Len(res) => Abs(res[k].total_amount)
                                       >= Abs(res[k + 1].total_amount)
            /\ Len(res) = IF limit > 0 /\ limit < Cardinality(all)
                          THEN limit
                          ELSE Cardinality(all)
            /\ \A key \in all :
                   (\A k \in DOMAIN res : rec[k] # key)
                       => \A k \in DOMAIN res :
                              Abs(res[k].total_amount)
                                  >= Volume(Holding(keys, key) \cap Passing)

\* with the expense filter and limit 1 a merchant's expense was reported
\* without its income, and a smaller merchant was cut off
C20_Witness ==
    /\ merchants.set
    /\ type_filter = Some("expense")
    /\ limit = 1
    /\ Len(transactions) = 3
    /\ Len(merchants.val) = 1
    /\ merchants.val[1].transaction_count = 1
    /\ merchants.val[1].total_amount = -1000
    /\ \E i, j \in DOMAIN transactions :
           /\ transactions[i].amount = 500
           /\ InputKeys[i] = RecordKeys(merchants.val)[1]
           /\ transactions[j].amount = -500

-----------------------------------------------------------------------------
(* Properties of the top-customer report *)

\* the positions of the input transactions with a strictly positive amount
Positive == {i \in DOMAIN transactions : transactions[i].amount > 0}

\* C21: every record of compute_top_customers stands for the strictly
\* positive transactions of one merchant key (count and total are those of
\* the positive ones only, and a key without a positive amount has no
\* record); its pct_of_total is a nearest tenth of a percent of its total
\* over the sum of all positive amounts of the input, whether or not limit
\* cut records off; without a positive amount the result is empty.
C21_TopCustomers ==
    customers.set =>
        LET res    == customers.val
            keys   == InputKeys
            rec    == RecordKeys(res)
            own(k) == Holding(keys, rec[k]) \cap Positive
            income == Total(transactions, Positive)
            all    == {keys[i] : i \in Positive}
        IN  /\ \A i, j \in DOMAIN res : rec[i] = rec[j] => i = j
            /\ \A k \in DOMAIN res :
                   /\ own(k) # {}
                   /\ res[k].transaction_count = Cardinality(own(k))
                   /\ res[k].total_amount = Total(transactions, own(k))
                   /\ res[k].pct_of_total.some
                   /\ NearestTenth(res[k].pct_of_total.val,
                                   res[k].total_amount, income)
            /\ Len(res) = IF limit > 0 /\ limit < Cardinality(all)
                          THEN limit
                          ELSE Cardinality(all)
            /\ Positive = {} => res = <<>>

\* with limit 1 the larger of two customers was reported with two thirds of
\* the income, and a refund paid to it did not lower its total
C21_Witness ==
    /\ customers.set
    /\ limit = 1
    /\ Len(customers.val) = 1
    /\ customers.val[1].total_amount = 500
    /\ customers.val[1].transaction_count = 1
    /\ customers.val[1].pct_of_total = Some(667)
    /\ \E i, j \in DOMAIN transactions :
           /\ transactions[i].amount = -1000
           /\ InputKeys[i] = RecordKeys(customers.val)[1]
           /\ transactions[j].amount = 250
           /\ InputKeys[j] # InputKeys[i]

-----------------------------------------------------------------------------
(* Properties of the balance history *)

\* the account with that id has no transaction booked in one of the months
\* calendar months that end with the current month
QuietInWindow(account_id) ==
    \A i \in DOMAIN transactions :
        transactions[i].account_id = account_id
            => \A k \in 0..(months - 1) :
                   LET f == MonthsBefore(today, k)
                   IN  ~(/\ transactions[i].booking_date.year = f.year
                         /\ transactions[i].booking_date.month = f.month)

-----------------------------------------------------------------------------
(* Properties of the rule suggestions *)

\* the merchant key of the group that the suggestion s stands for
SuggestionKey(s) == _extract_merchant_key(s.sample_transactions[1].name)

\* the merchant keys of the categorized transactions, by position
CategorizedKeys ==
    Listed([i \in DOMAIN categorized |->
               _extract_merchant_key(categorized[i].name)])

\* how many of the categorized transactions at the positions S have category c
TimesIn(S, c) == Cardinality({i \in S : categorized[i].category_name = c})

\* c is a most frequent category of the categorized transactions at S
MostFrequentIn(S, c) ==
    /\ \E i \in S : categorized[i].category_name = c
    /\ \A j \in S : TimesIn(S, categorized[j].category_name) <= TimesIn(S, c)

\* both keys have 6 characters or more and agree on their first 8 characters,
\* or on all characters of the shorter one when that has fewer than 8
SharePrefix(a, b) ==
    /\ Len(a) >= 6
    /\ Len(b) >= 6
    /\ \A i \in 1..8 : (i <= Len(a) /\ i <= Len(b)) => a[i] = b[i]

\* C23: a suggestion whose merchant key occurs among the categorized
\* transactions carries a most frequent category of those and confidence high
\* when that category occurred 3 times or more there, else medium; otherwise,
\* when a categorized key shares a prefix with it, it carries a most frequent
\* category of such a key and confidence medium when that category occurred
\* 2 times or more there, else low; otherwise it carries the placeholder
\* "(needs manual assignment)" and confidence low.
C23_Grading ==
    suggestions.set =>
        \A k \in DOMAIN suggestions.val :
            LET s     == suggestions.val[k]
                keys  == CategorizedKeys
                exact == Holding(keys, SuggestionKey(s))
                near  == {i \in DOMAIN keys : SharePrefix(SuggestionKey(s), keys[i])}
            IN  IF exact # {}
                THEN /\ MostFrequentIn(exact, s.suggested_category)
                     /\ s.confidence
                            = IF TimesIn(exact, s.suggested_category) >= 3
                              THEN "high" ELSE "medium"
                ELSE IF near # {}
                THEN \E i \in near :
                         LET same == Holding(keys, keys[i])
                         IN  /\ MostFrequentIn(same, s.suggested_category)
                             /\ s.confidence
                                    = IF TimesIn(same, s.suggested_category) >= 2
                                      THEN "medium" ELSE "low"
                ELSE /\ s.suggested_category = "(needs manual assignment)"
                     /\ s.confidence = "low"

\* one payee was found twice under its own key (medium), one only through a
\* key with the same first 8 characters, once (low, with that key's
\* category), and one not at all (placeholder)
C23_Witness ==
    /\ suggestions.set
    /\ Len(suggestions.val) = 3
    /\ \E a, b, c \in DOMAIN suggestions.val :
           /\ Holding(CategorizedKeys, SuggestionKey(suggestions.val[a])) # {}
           /\ suggestions.val[a].confidence = "medium"
           /\ suggestions.val[a].suggested_category = "Food"
           /\ Holding(CategorizedKeys, SuggestionKey(suggestions.val[b])) = {}
           /\ suggestions.val[b].suggested_category = "Fun"
           /\ suggestions.val[b].confidence = "low"
           /\ suggestions.val[c].suggested_category = "(needs manual assignment)"
           /\ suggestions.val[c].confidence = "low"

\* the place of a confidence in the final order
ConfidenceRank(c) == CASE c = "high" -> 1 [] c = "medium" -> 2 [] c = "low" -> 3

\* C24: suggest_rules returns one suggestion per distinct merchant key of the
\* uncategorized transactions, match_count being the number of them with that
\* key; the suggestions are ordered by confidence (high, medium, low), then
\* by match_count, larger first, then by total_amount, smaller first.
C24_OnePerKeyOrdered ==
    suggestions.set =>
        LET res  == suggestions.val
            keys == InputKeys
            rec  == Listed([k \in DOMAIN res |-> SuggestionKey(res[k])])
        IN  /\ \A i, j \in DOMAIN res : rec[i] = rec[j] => i = j
            /\ {rec[k] : k \in DOMAIN res} = {keys[i] : i \in DOMAIN keys}
            /\ \A k \in DOMAIN res :
                   res[k].match_count = Cardinality(Holding(keys, rec[k]))
            /\ \A k \in DOMAIN res :
                   k < Len(res) =>
                       \/ ConfidenceRank(res[k].confidence)
                              < ConfidenceRank(res[k + 1].confidence)
                       \/ /\ res[k].confidence = res[k + 1].confidence
                          /\ \/ res[k].match_count > res[k + 1].match_count
                             \/ /\ res[k].match_count = res[k + 1].match_count
                                /\ res[k].total_amount <= res[k + 1].total_amount

\* the payee met last was graded high and came first, and of the two
\* ungraded payees the one with the lower total, met second, came before the
\* one met first
C24_Witness ==
    /\ suggestions.set
    /\ Len(transactions) = 3
    /\ Len(suggestions.val) = 3
    /\ suggestions.val[1].confidence = "high"
    /\ SuggestionKey(suggestions.val[1]) = InputKeys[3]
    /\ suggestions.val[2].confidence = "low"
    /\ suggestions.val[2].total_amount = -200
    /\ SuggestionKey(suggestions.val[2]) = InputKeys[2]
    /\ suggestions.val[3].confidence = "low"
    /\ suggestions.val[3].total_amount = -100
    /\ SuggestionKey(suggestions.val[3]) = InputKeys[1]

-----------------------------------------------------------------------------
(* Properties of the transfer categories *)

\* the first characters of path spell the transfer-root label
BeginsWithRoot(path) ==
    /\ Len(path) >= Len(TRANSFER_CATEGORY_ROOT)
    /\ \A i \in DOMAIN TRANSFER_CATEGORY_ROOT :
           path[i] = TRANSFER_CATEGORY_ROOT[i]

\* C25: get_transfer_category_ids returns the id of a category iff the path
\* of the category starts with the transfer-root label "Umbuchungen".
C25_TransferCategoryIds ==
    transfer_ids.set =>
        \A c \in DOMAIN categories :
            categories[c].id \in transfer_ids.val
                <=> BeginsWithRoot(categories[c].path)

\* the root group and a category below it were returned, a category that
\* has the label further down its path was not
C25_Witness ==
    /\ transfer_ids.set
    /\ Len(categories) = 3
    /\ Cardinality(transfer_ids.val) = 2
    /\ \E a, b, c \in DOMAIN categories :
           /\ categories[a].path = TRANSFER_CATEGORY_ROOT
           /\ categories[a].id \in transfer_ids.val
           /\ Len(categories[b].path) > Len(TRANSFER_CATEGORY_ROOT)
           /\ categories[b].id \in transfer_ids.val
           /\ categories[c].path = <<"A", "\\">> \o TRANSFER_CATEGORY_ROOT
           /\ categories[c].id \notin transfer_ids.val

-----------------------------------------------------------------------------
(* Properties of one invocation *)

\* every result that has been returned is what the operation returns for the
\* snapshots as they are now
Recomputed ==
    /\ filtered.set =>
           filtered.val = filter_transfers(transactions, transfer_category_ids,
                                           accounts, active_groups)
    /\ extracted.set =>
           extracted.val = extract_transfers(transactions,
                                             transfer_category_ids, accounts)
    /\ spending.set =>
           spending.val = compute_spending(transactions, categories,
                                           compare_transactions)
    /\ cashflow.set =>
           cashflow.val = compute_cashflow(transactions, months, granularity,
                                           today)
    /\ recurring.set =>
           recurring.val = detect_recurring(transactions, min_occurrences)
    /\ merchants.set =>
           merchants.val = compute_merchant_summary(transactions, limit,
                                                    type_filter)
    /\ customers.set =>
           customers.val = compute_top_customers(transactions, limit)
    /\ history.set =>
           history.val = compute_balance_history(accounts.val, transactions,
                                                 months, today)
    /\ suggestions.set =>
           suggestions.val = suggest_rules(transactions, categorized, categories)

-----------------------------------------------------------------------------
(* Properties of the merchant keyer *)

\* the name is a card-network envelope: the aggregator's name followed by "*"
IsEnvelope(name) ==
    LET folded == Lower(Strip(name))
    IN  \/ StartsWith(folded, <<"p", "a", "y", "p", "a", "l", " ", "*">>)
        \/ StartsWith(folded, <<"p", "a", "y", "p", "a", "l", "*">>)

\* the name up to its first "/"
BeforeSeparator(name) ==
    IF Contains(name, "/") THEN BeforeFirst(name, "/") ELSE name

\* the leading tokens of the folded name in front of its first "/", up to the
\* first transaction code or stopword behind the first token
LeadingTokens(name) ==
    LET tokens == Split(BeforeSeparator(Lower(Strip(name))))
    IN  IF tokens = <<>> THEN EmptyStr
        ELSE Join(<<tokens[1]>>
                  \o TakeBefore(Tail(tokens),
                                {i \in DOMAIN Tail(tokens) :
                                    IsTrailingCode(Tail(tokens)[i])}))

\* C27: the key of a payee name that is not a PayPal envelope is its
\* lower-cased, trimmed text cut at the first "/" and reduced to the first
\* token plus the tokens behind it up to the first code or stopword; the
\* name in capitals, in small letters and without what follows the "/" has
\* the same key, and the key of the key is the key.
C27_MerchantKey ==
    (extracted_key.set /\ ~IsEnvelope(payee_name)) =>
        /\ extracted_key.val = LeadingTokens(payee_name)
        /\ _extract_merchant_key([i \in DOMAIN payee_name |->
                                     UpperChar(payee_name[i])])
               = extracted_key.val
        /\ _extract_merchant_key(Lower(payee_name)) = extracted_key.val
        /\ _extract_merchant_key(BeforeSeparator(payee_name))
               = extracted_key.val
        /\ _extract_merchant_key(extracted_key.val) = extracted_key.val

-----------------------------------------------------------------------------
(* Properties of the category list parser *)

\* position of the nearest item in front of item i that lies one level
\* higher, 0 for an item at indentation 0
ParentPosition(i) ==
    IF category_items[i].indentation = 0 THEN 0
    ELSE LET above == {j \in 1..(i - 1) :
                          category_items[j].indentation
                              = category_items[i].indentation - 1}
         IN  CHOOSE j \in above : \A k \in above : k <= j

RECURSIVE AncestorNames(_)
\* names of the ancestors of item i, the root first
AncestorNames(i) ==
    IF ParentPosition(i) = 0 THEN <<>>
    ELSE AncestorNames(ParentPosition(i))
         \o <<category_items[ParentPosition(i)].name>>

-----------------------------------------------------------------------------
(* Properties that tie the two period operations together *)

\* C29: the period before the resolved "this-month" has the start and end
\* date of "last-month" resolved on the same day, and the period before any
\* resolved period, monthly or not, ends on the day before that period
\* starts: no day lies in both and none between them.
C29_PreviousMeetsCurrent ==
    previous.set =>
        /\ ToOrdinal(previous.val.end) + 1 = ToOrdinal(range.val.start)
        /\ range.val.start = period.val.result.start
        /\ period.val.name = "this-month" =>
               /\ previous.val.start
                      = resolve_period("last-month", today).start
               /\ previous.val.end = resolve_period("last-month", today).end

\* the period before January's "this-month" has been computed
C29_Witness ==
    /\ previous.set
    /\ period.val.name = "this-month"
    /\ today.month = 1
    /\ previous.val.start.month = 12
    /\ previous.val.start.year = today.year - 1

-----------------------------------------------------------------------------
(* Properties of the two views under an active-group filter *)

\* other non-empty active-group lists: another group, an unknown one, the
\* empty label, two groups
OtherGroupLists ==
    {<<<<"F", "a">>>>, <<<<"X">>>>, <<EmptyStr>>,
     <<<<"p", "r">>, <<"F", "a">>>>}

\* C30: under a non-empty active-group list every input transaction is
\* returned by filter_transfers or by extract_transfers; a transaction is
\* returned by both only if its counterparty is an own account, and an own
\* transfer whose two accounts the snapshot identifies is returned by both
\* iff their groups differ; filter_transfers returns the same list for every
\* other non-empty active-group list.
C30_ViewsUnderGroupFilter ==
    (filtered.set /\ extracted.set /\ ActiveFilter) =>
        /\ \A i \in DOMAIN transactions :
               /\ Returned(filtered.val, i) \/ Returned(extracted.val, i)
               /\ (Returned(filtered.val, i) /\ Returned(extracted.val, i))
                      => CounterpartyAccounts(transactions[i]) # {}
               /\ IsOwnTransfer(transactions[i]) =>
                      ((Returned(filtered.val, i) /\ Returned(extracted.val, i))
                           <=> ~SameGroup(transactions[i]))
        /\ \A other \in OtherGroupLists :
               filter_transfers(transactions, transfer_category_ids, accounts,
                                Some(other)) = filtered.val

\* under the filter for one group, a transfer booked on an account of another
\* group into an own account of a different group was returned by both
\* operations, and an external payment by filter_transfers alone
C30_Witness ==
    /\ filtered.set /\ extracted.set /\ ActiveFilter
    /\ \E i, j \in DOMAIN transactions :
           /\ IsOwnTransfer(transactions[i])
           /\ ~SameGroup(transactions[i])
           /\ \A o \in BookedAccounts(transactions[i]) :
                  \A k \in DOMAIN active_groups.val :
                      Lower(accounts.val[o].group) # Lower(active_groups.val[k])
           /\ Returned(filtered.val, i) /\ Returned(extracted.val, i)
           /\ CounterpartyAccounts(transactions[j]) = {}
           /\ Returned(filtered.val, j) /\ ~Returned(extracted.val, j)

=============================================================================
